---- MODULE Spec2Model ----
(***************************************************************************)
(* Model of the December browser IDE services:                             *)
(*   - the IndexedDB file store (frontend/src/lib/services/fileSystem.ts)  *)
(*     and the api.ts handlers built on it,                                *)
(*   - the in-memory chat sessions and the streaming chat client (ai.ts)   *)
(*     with the cancellable consumer of api.ts,                            *)
(*   - the audit score and the production-readiness decision               *)
(*     (audit.ts, projectDelivery.ts),                                     *)
(*   - the audit checks, the project analysis, the deployment guide and    *)
(*     the next steps computed from a project's files (audit.ts,           *)
(*     deployment.ts, projectDelivery.ts deliverProject),                  *)
(*   - the delivery dashboard (components/LoadingSkeleton.tsx).            *)
(* JavaScript strings whose structure matters (project ids, paths, store   *)
(* keys, streamed text) are sequences of one-character strings.            *)
(***************************************************************************)
EXTENDS Integers, Sequences, FiniteSets, TLC

VARIABLES
    ids,          \* the project ids in use in this run
    store,        \* the "files" object store: key -> record {path, content}
    projects,     \* the project registry (ids present in localStorage)
    lastModified, \* the registry: the projects whose lastModified has been updated
    task,         \* the multi-await file operation in flight, if any
    written,      \* history: per (projectId, path), what was last written there
    expected,     \* history: per (projectId, path), the content the project holds there
    chatSessions, \* ai.ts chatSessions: sessionId -> ChatSession
    apiKey,       \* whether an API key is configured (env or localStorage)
    openaiClient, \* whether the OpenAI client has been constructed
    now,          \* Date.now()
    gen,          \* the sendMessageStream generator in flight
    consumer,     \* the sendChatMessageStream consumer and its cancelled flag
    upstream,     \* history: the deltas the completion stream has delivered
    send,         \* the sendMessage call in flight
    checks,       \* audit: the list of checks of the report under evaluation
    errors,       \* audit: the report's errors list
    score,        \* audit: the report's score
    ready,        \* delivery: readyForProduction
    apc,          \* audit: position in the scoring pipeline
    projectFiles, \* delivery: the files listFiles returns for the project analysed
    delivery,     \* delivery: what deliverProject has computed so far
    dpc,          \* delivery: position in deliverProject
    dash,         \* DeploymentDashboard: projectId prop, delivery and loading state
    loads,        \* DeploymentDashboard: the loadDeliveryData calls started
    page,         \* the document: localStorage, OS preference, root classes, useTheme state
    scan,         \* audit: the detectWarnings call in progress
    edits,        \* the number of files the editor has saved or deleted
    flight        \* preflight.sh: the machine it runs on, its counters, its exit status

fsVars    == <<ids, store, projects, lastModified, task, written, expected>>
chatVars  == <<chatSessions, apiKey, openaiClient, now, gen, consumer, upstream, send>>
auditVars == <<checks, errors, score, ready, apc>>
deliveryVars == <<projectFiles, delivery, dpc>>
dashVars  == <<dash, loads>>
toolVars  == <<page, scan, edits, flight>>
vars      == <<fsVars, chatVars, auditVars, deliveryVars, dashVars, toolVars>>

----------------------------------------------------------------------------
(* Values *)

\* string | null results: null is the empty tuple, a string s is <<s>>
Null    == <<>>
Some(x) == <<x>>

PA == <<"a">>
PB == <<"a", ":", "b">>
PC == <<"c">>
ProjectIds == {PA, PB, PC}

\* the project ids a run works with (route parameter /projects/[containerId])
IdUniverses == {{PA, PB}, {PA, PC}}

PathX  == <<"x">>
PathBX == <<"b", ":", "x">>
Paths  == {PathX, PathBX}

\* file contents; the empty string is a legal content
Contents == {"", "v"}

\* UTF-16 code units of the characters used, the order of IndexedDB string keys
CharCode(ch) ==
    CASE ch = "-" -> 45
      [] ch = "0" -> 48
      [] ch = "1" -> 49
      [] ch = "2" -> 50
      [] ch = "3" -> 51
      [] ch = "4" -> 52
      [] ch = ":" -> 58
      [] ch = "a" -> 97
      [] ch = "b" -> 98
      [] ch = "c" -> 99
      [] ch = "x" -> 120
      [] OTHER    -> 0

RECURSIVE StrLess(_, _)
StrLess(s, t) ==
    IF s = <<>> THEN t # <<>>
    ELSE IF t = <<>> THEN FALSE
    ELSE IF Head(s) = Head(t) THEN StrLess(Tail(s), Tail(t))
    ELSE CharCode(Head(s)) < CharCode(Head(t))

\* String.prototype.startsWith
StartsWith(s, pre) ==
    Len(pre) <= Len(s) /\ SubSeq(s, 1, Len(pre)) = pre

\* String.prototype.replace(pattern: string, replacement): first occurrence only
ReplaceFirst(s, pat, rep) ==
    LET hits == {i \in 1..(Len(s) - Len(pat) + 1) : SubSeq(s, i, i + Len(pat) - 1) = pat}
    IN  IF hits = {} THEN s
        ELSE LET i == CHOOSE j \in hits : \A k \in hits : j <= k
             IN  SubSeq(s, 1, i - 1) \o rep \o SubSeq(s, i + Len(pat), Len(s))

\* the keys of a set in ascending order, as a cursor walks them
RECURSIVE Ascending(_)
Ascending(S) ==
    IF S = {} THEN <<>>
    ELSE LET m == CHOOSE k \in S : \A j \in S \ {k} : StrLess(k, j)
         IN  <<m>> \o Ascending(S \ {m})

IsPrefix(s, t) == Len(s) <= Len(t) /\ SubSeq(t, 1, Len(s)) = s

----------------------------------------------------------------------------
(* fileSystem.ts: the object store and its primitives *)

\* const key = `${projectId}:${path}`
Key(projectId, path) == projectId \o <<":">> \o path

\* store.put(record): keyPath is "path"
Put(s, rec) ==
    [k \in (DOMAIN s) \cup {rec.path} |-> IF k = rec.path THEN rec ELSE s[k]]

\* store.delete(key)
Del(s, key) == [k \in (DOMAIN s) \ {key} |-> s[k]]

getFileFalsy(s, projectId, path) ==
    LET key == Key(projectId, path)
    IN  IF key \in DOMAIN s /\ s[key].content # "" THEN Some(s[key].content) ELSE Null

getFile(s, projectId, path) ==
    LET key == Key(projectId, path)
    IN  IF key \in DOMAIN s THEN Some(s[key].content) ELSE Null

writeFile(s, projectId, path, content) ==
    Put(s, [path |-> Key(projectId, path), content |-> content])

deleteFile(s, projectId, path) == Del(s, Key(projectId, path))

\* cursor over the whole store, keeping the keys that start with `${projectId}:`
listFiles(s, projectId) ==
    LET prefix == projectId \o <<":">>
        keys   == Ascending({k \in DOMAIN s : StartsWith(s[k].path, prefix)})
    IN  [i \in 1..Len(keys) |->
            [path    |-> ReplaceFirst(s[keys[i]].path, prefix, <<>>),
             content |-> s[keys[i]].content]]

\* Record<string, string> built by project[file.path] = file.content
exportProject(s, projectId) ==
    LET files == listFiles(s, projectId)
    IN  [p \in {files[i].path : i \in 1..Len(files)} |->
            LET i == CHOOSE j \in 1..Len(files) :
                        /\ files[j].path = p
                        /\ \A k \in 1..Len(files) : files[k].path = p => k <= j
            IN  files[i].content]

\* api.readFile: the content, or the thrown Error
readFile(s, containerId, path) ==
    LET content == getFile(s, containerId, path)
    IN  IF content = Null
        THEN [ok |-> FALSE, error |-> <<"File not found: ", path>>]
        ELSE [ok |-> TRUE, content |-> content[1]]

----------------------------------------------------------------------------
(* History variables of the file store *)

Pairs == ProjectIds \X Paths

WrittenPut(w, projectId, path, content) ==
    [pr \in Pairs |->
        IF pr = <<projectId, path>> THEN Some(content)
        ELSE IF Key(pr[1], pr[2]) = Key(projectId, path) THEN Null
        ELSE w[pr]]

WrittenDel(w, projectId, path) ==
    [pr \in Pairs |-> IF Key(pr[1], pr[2]) = Key(projectId, path) THEN Null ELSE w[pr]]

\* the project's own view: only operations on projectId itself count
ExpectedPut(e, projectId, path, content) == [e EXCEPT ![<<projectId, path>>] = Some(content)]

ExpectedDel(e, projectId, path) ==
    IF <<projectId, path>> \in Pairs THEN [e EXCEPT ![<<projectId, path>>] = Null] ELSE e

Idle == [kind |-> "idle"]

\* another caller's operation lands between two awaits of the task in flight
Disturb(t) ==
    IF t.kind = "idle" THEN t
    ELSE IF t.kind = "rename" THEN [t EXCEPT !.clean = FALSE, !.snap = <<>>]
    ELSE [t EXCEPT !.clean = FALSE]

----------------------------------------------------------------------------
(* Initial state *)

InitFS ==
    /\ ids \in IdUniverses
    /\ store = <<>>
    /\ projects = ids
    /\ lastModified = {}
    /\ task = Idle
    /\ written = [pr \in Pairs |-> Null]
    /\ expected = [pr \in Pairs |-> Null]

----------------------------------------------------------------------------
(* container.ts (registry) *)

\* deleteProject(id): the project leaves the registry
deleteProject(ps, id) == ps \ {id}

\* updateProject(id, { lastModified }): the entry of a registered project is updated
updateProject(lm, ps, id) == IF id \in ps THEN lm \cup {id} ELSE lm

\* what file store actions leave alone
OnlyFS == UNCHANGED <<chatVars, auditVars, deliveryVars, dashVars, toolVars>>

----------------------------------------------------------------------------
(* File store actions.  WriteFile and DeleteFile are single transactions;   *)
(* renameFile, clearProject, deleteContainer and importProject are chains   *)
(* of awaited transactions between which other callers' operations can run. *)

\* fileSystem.writeFile(projectId, path, content)
WriteFile(projectId, path, content) ==
    /\ store' = writeFile(store, projectId, path, content)
    /\ written' = WrittenPut(written, projectId, path, content)
    /\ expected' = ExpectedPut(expected, projectId, path, content)
    /\ task' = Disturb(task)
    /\ lastModified' = updateProject(lastModified, projects, projectId)
    /\ UNCHANGED <<ids, projects>>
    /\ OnlyFS

\* fileSystem.deleteFile(projectId, path)
DeleteFile(projectId, path) ==
    /\ store' = deleteFile(store, projectId, path)
    /\ written' = WrittenDel(written, projectId, path)
    /\ expected' = ExpectedDel(expected, projectId, path)
    /\ task' = Disturb(task)
    /\ lastModified' = updateProject(lastModified, projects, projectId)
    /\ UNCHANGED <<ids, projects>>
    /\ OnlyFS

\* renameFile: const content = await getFile(projectId, oldPath); throw if null
RenameGet(projectId, oldPath, newPath) ==
    /\ task.kind = "idle"
    /\ LET content == getFile(store, projectId, oldPath)
       IN  task' = [kind |-> "rename",
                    pc |-> IF content = Null THEN "failed" ELSE "write",
                    projectId |-> projectId, oldPath |-> oldPath, newPath |-> newPath,
                    content |-> content,
                    error |-> IF content = Null
                              THEN <<"File not found: ", oldPath>> ELSE Null,
                    clean |-> TRUE, snap |-> store]
    /\ UNCHANGED <<ids, store, projects, lastModified, written, expected>>
    /\ OnlyFS

RenameDeleteFirst ==
    /\ task.kind = "rename" /\ task.pc = "write"
    /\ store' = deleteFile(store, task.projectId, task.oldPath)
    /\ written' = WrittenDel(written, task.projectId, task.oldPath)
    /\ expected' = ExpectedDel(expected, task.projectId, task.oldPath)
    /\ task' = [task EXCEPT !.pc = "delete"]
    /\ UNCHANGED <<ids, projects, lastModified>>
    /\ OnlyFS

\* renameFile: await writeFile(projectId, newPath, content)
RenamePut ==
    /\ task.kind = "rename" /\ task.pc = "write"
    /\ store' = writeFile(store, task.projectId, task.newPath, task.content[1])
    /\ written' = WrittenPut(written, task.projectId, task.newPath, task.content[1])
    /\ expected' = ExpectedPut(expected, task.projectId, task.newPath, task.content[1])
    /\ task' = [task EXCEPT !.pc = "delete"]
    /\ UNCHANGED <<ids, projects, lastModified>>
    /\ OnlyFS

RenameKeepOld ==
    /\ task.kind = "rename" /\ task.pc = "delete"
    /\ task' = [task EXCEPT !.pc = "done"]
    /\ UNCHANGED <<ids, store, projects, lastModified, written, expected>>
    /\ OnlyFS

\* renameFile: await deleteFile(projectId, oldPath)
RenameDelete ==
    /\ task.kind = "rename" /\ task.pc = "delete"
    /\ store' = deleteFile(store, task.projectId, task.oldPath)
    /\ written' = WrittenDel(written, task.projectId, task.oldPath)
    /\ expected' = ExpectedDel(expected, task.projectId, task.oldPath)
    /\ task' = [task EXCEPT !.pc = "done"]
    /\ UNCHANGED <<ids, projects, lastModified>>
    /\ OnlyFS

TaskReturnUpdateAlways ==
    /\ \/ task.kind = "rename" /\ task.pc \in {"done", "failed"}
       \/ task.kind \in {"clear", "import"} /\ task.pc = "done"
    /\ task' = Idle
    /\ lastModified' = IF task.kind = "rename"
                       THEN updateProject(lastModified, projects, task.projectId)
                       ELSE lastModified
    /\ UNCHANGED <<ids, store, projects, written, expected>>
    /\ OnlyFS

\* the promise of the chain in flight settles and its caller goes on; api.renameFile
\* then runs containerService.updateProject(containerId, { lastModified })
TaskReturn ==
    /\ \/ task.kind = "rename" /\ task.pc \in {"done", "failed"}
       \/ task.kind \in {"clear", "import"} /\ task.pc = "done"
    /\ task' = Idle
    /\ lastModified' = IF task.kind = "rename" /\ task.pc = "done"
                       THEN updateProject(lastModified, projects, task.projectId)
                       ELSE lastModified
    /\ UNCHANGED <<ids, store, projects, written, expected>>
    /\ OnlyFS

\* clearProject: const files = await listFiles(projectId)
ClearProject(projectId) ==
    /\ task.kind = "idle"
    /\ LET files == listFiles(store, projectId)
       IN  task' = [kind |-> "clear", pc |-> IF files = <<>> THEN "done" ELSE "loop",
                    projectId |-> projectId, files |-> files,
                    listed |-> Len(files), container |-> FALSE, clean |-> TRUE]
    /\ UNCHANGED <<ids, store, projects, lastModified, written, expected>>
    /\ OnlyFS

DeleteContainerNoCascade(containerId) ==
    /\ task.kind = "idle"
    /\ projects' = deleteProject(projects, containerId)
    /\ lastModified' = deleteProject(lastModified, containerId)
    /\ task' = [kind |-> "clear", pc |-> "done",
                projectId |-> containerId, files |-> <<>>,
                listed |-> Len(listFiles(store, containerId)),
                container |-> TRUE, clean |-> TRUE]
    /\ UNCHANGED <<ids, store, written, expected>>
    /\ OnlyFS

\* api.deleteContainer: deleteProject(containerId); await clearProject(containerId)
DeleteContainer(containerId) ==
    /\ task.kind = "idle"
    /\ projects' = deleteProject(projects, containerId)
    /\ lastModified' = deleteProject(lastModified, containerId)
    /\ LET files == listFiles(store, containerId)
       IN  task' = [kind |-> "clear", pc |-> IF files = <<>> THEN "done" ELSE "loop",
                    projectId |-> containerId, files |-> files,
                    listed |-> Len(files), container |-> TRUE, clean |-> TRUE]
    /\ UNCHANGED <<ids, store, written, expected>>
    /\ OnlyFS

\* clearProject: for (const file of files) await deleteFile(projectId, file.path)
ClearDelete ==
    /\ task.kind = "clear" /\ task.pc = "loop"
    /\ LET file == Head(task.files)
       IN  /\ store' = deleteFile(store, task.projectId, file.path)
           /\ written' = WrittenDel(written, task.projectId, file.path)
           /\ expected' = ExpectedDel(expected, task.projectId, file.path)
    /\ task' = [task EXCEPT !.files = Tail(task.files),
                            !.pc = IF Tail(task.files) = <<>> THEN "done" ELSE "loop"]
    /\ UNCHANGED <<ids, projects, lastModified>>
    /\ OnlyFS

\* importProject(projectId, files) with files = await exportProject(source)
ImportProject(projectId, source) ==
    /\ task.kind = "idle"
    /\ LET files == exportProject(store, source)
       IN  task' = [kind |-> "import", pc |-> IF DOMAIN files = {} THEN "done" ELSE "loop",
                    projectId |-> projectId, source |-> source,
                    files |-> files, todo |-> DOMAIN files,
                    wasEmpty |-> (listFiles(store, projectId) = <<>>),
                    clean |-> TRUE]
    /\ UNCHANGED <<ids, store, projects, lastModified, written, expected>>
    /\ OnlyFS

ImportWriteTruthy(path) ==
    /\ task.kind = "import" /\ task.pc = "loop"
    /\ path \in task.todo
    /\ IF task.files[path] # ""
       THEN /\ store' = writeFile(store, task.projectId, path, task.files[path])
            /\ written' = WrittenPut(written, task.projectId, path, task.files[path])
            /\ expected' = ExpectedPut(expected, task.projectId, path, task.files[path])
       ELSE UNCHANGED <<store, written, expected>>
    /\ task' = [task EXCEPT !.todo = task.todo \ {path},
                            !.pc = IF task.todo = {path} THEN "done" ELSE "loop"]
    /\ UNCHANGED <<ids, projects, lastModified>>
    /\ OnlyFS

\* importProject: for (const [path, content] of Object.entries(files))
\*                  await writeFile(projectId, path, content)
\* the entries come in the insertion order of the caller's object: any order
ImportWrite(path) ==
    /\ task.kind = "import" /\ task.pc = "loop"
    /\ path \in task.todo
    /\ store' = writeFile(store, task.projectId, path, task.files[path])
    /\ written' = WrittenPut(written, task.projectId, path, task.files[path])
    /\ expected' = ExpectedPut(expected, task.projectId, path, task.files[path])
    /\ task' = [task EXCEPT !.todo = task.todo \ {path},
                            !.pc = IF task.todo = {path} THEN "done" ELSE "loop"]
    /\ UNCHANGED <<ids, projects, lastModified>>
    /\ OnlyFS

Next ==
    \/ \E p \in ids, path \in Paths, c \in Contents : WriteFile(p, path, c)
    \/ \E p \in ids, path \in Paths : DeleteFile(p, path)
    \/ \E p \in ids, old \in Paths, new \in Paths : RenameGet(p, old, new)
    \/ RenamePut
    \/ RenameDelete
    \/ \E p \in ids : ClearProject(p)
    \/ \E p \in ids : DeleteContainer(p)
    \/ ClearDelete
    \/ \E p \in ids, src \in ids : ImportProject(p, src)
    \/ \E path \in Paths : ImportWrite(path)
    \/ TaskReturn

----------------------------------------------------------------------------
(* ai.ts: chat sessions *)

MaxClock    == 1
MaxChunks   == 2
MaxMessages == 2

ChatProjects == {PA, PC}
\* the chat code treats all project ids alike: streams are run on one of them
StreamProjects == {PA}
UserText     == <<"q">>
Deltas       == {<<"h">>}
NoContent    == <<>>
Fallback     == <<"S", "o", "r", "r", "y">>
KeyError     == "AI API key not configured"
\* the message of an error thrown by the SDK
UpstreamError == "request failed"

DigitChars == <<"0", "1", "2", "3", "4", "5", "6", "7", "8", "9">>

\* `${projectId}-${Date.now()}`
SessionId(projectId, t) == projectId \o <<"-">> \o <<DigitChars[t + 1]>>

\* Map.prototype.set on the insertion-ordered map of sessions
MapSet(cs, session) ==
    IF \E i \in 1..Len(cs) : cs[i].id = session.id
    THEN [i \in 1..Len(cs) |-> IF cs[i].id = session.id THEN session ELSE cs[i]]
    ELSE Append(cs, session)

\* Array.from(chatSessions.values()).find(s => s.projectId === projectId): index or 0
FindSession(cs, projectId) ==
    LET hits == {i \in 1..Len(cs) : cs[i].projectId = projectId}
    IN  IF hits = {} THEN 0 ELSE CHOOSE i \in hits : \A j \in hits : i <= j

getOrCreateChatSessionById(cs, projectId, t) ==
    IF \E i \in 1..Len(cs) : cs[i].id = projectId THEN cs
    ELSE MapSet(cs, [id |-> SessionId(projectId, t), projectId |-> projectId,
                     messages |-> <<>>])

\* getOrCreateChatSession: the session map afterwards
getOrCreateChatSession(cs, projectId, t) ==
    IF FindSession(cs, projectId) # 0 THEN cs
    ELSE MapSet(cs, [id |-> SessionId(projectId, t), projectId |-> projectId,
                     messages |-> <<>>])

\* session.messages.push(msg) on the session object with this id
Push(cs, sessionId, msg) ==
    [i \in 1..Len(cs) |->
        IF cs[i].id = sessionId THEN [cs[i] EXCEPT !.messages = Append(@, msg)] ELSE cs[i]]

\* getChatHistory(projectId): the messages of the session found or created
getChatHistory(cs, projectId, t) ==
    LET after == getOrCreateChatSession(cs, projectId, t)
    IN  after[FindSession(after, projectId)].messages

\* nothing reads the id of a user message: its `user-${Date.now()}` is kept as a tag
UserMsg(t, text) == [id |-> <<"user-">>, role |-> "user", content |-> text]
AssistantMsg(id, content) == [id |-> id, role |-> "assistant", content |-> content]

\* getAIClient() that never throws
ClientAlways == TRUE

\* getAIClient(): throws unless a client exists or a key is configured
ClientAvailable == openaiClient \/ apiKey

RECURSIVE TotalMessages(_)
TotalMessages(cs) ==
    IF cs = <<>> THEN 0 ELSE Len(Head(cs).messages) + TotalMessages(Tail(cs))

\* bound of the model: a new exchange starts only while few messages are stored
Room(cs) == TotalMessages(cs) < MaxMessages

InitChat ==
    /\ chatSessions = <<>>
    /\ apiKey = FALSE
    /\ openaiClient = FALSE
    /\ now = 0
    /\ gen = Idle
    /\ consumer = Idle
    /\ upstream = <<>>
    /\ send = Idle

OnlyChat == UNCHANGED <<fsVars, auditVars, deliveryVars, dashVars, toolVars>>

\* localStorage.setItem('ai_api_key', ...)
ConfigureApiKey ==
    /\ ~apiKey
    /\ apiKey' = TRUE
    /\ UNCHANGED <<chatSessions, openaiClient, now, gen, consumer, upstream, send>>
    /\ OnlyChat

\* time passes
Tick ==
    /\ now < MaxClock
    /\ now' = now + 1
    /\ UNCHANGED <<chatSessions, apiKey, openaiClient, gen, consumer, upstream, send>>
    /\ OnlyChat

\* api.getChatHistory -> ai.getChatHistory
GetChatHistory(projectId) ==
    /\ chatSessions' = getOrCreateChatSession(chatSessions, projectId, now)
    /\ chatSessions' # chatSessions
    /\ UNCHANGED <<apiKey, openaiClient, now, gen, consumer, upstream, send>>
    /\ OnlyChat

\* sendMessage up to `await client.chat.completions.create(...)`
SendMessage(projectId) ==
    /\ send.kind = "idle"
    /\ ClientAvailable
    /\ Room(chatSessions)
    /\ openaiClient' = TRUE
    /\ LET cs  == getOrCreateChatSession(chatSessions, projectId, now)
           sid == cs[FindSession(cs, projectId)].id
       IN  /\ chatSessions' = Push(cs, sid, UserMsg(now, UserText))
           /\ send' = [kind |-> "send", projectId |-> projectId, sessionId |-> sid]
    /\ UNCHANGED <<apiKey, now, gen, consumer, upstream>>
    /\ OnlyChat

\* sendMessage without a key: getAIClient throws before anything else
SendMessageNoKey(projectId) ==
    /\ send.kind = "idle"
    /\ ~ClientAvailable
    /\ send' = [kind |-> "failed", projectId |-> projectId, error |-> KeyError]
    /\ UNCHANGED <<chatSessions, apiKey, openaiClient, now, gen, consumer, upstream>>
    /\ OnlyChat

\* the completion arrives: content, or the fallback text when it is empty
SendResolve(content) ==
    /\ send.kind = "send"
    /\ chatSessions' = Push(chatSessions, send.sessionId,
                            AssistantMsg(<<"assistant-", now>>,
                                         IF content = NoContent THEN Fallback ELSE content))
    /\ send' = Idle
    /\ UNCHANGED <<apiKey, openaiClient, now, gen, consumer, upstream>>
    /\ OnlyChat

\* the completion request fails: the error propagates, or the caller has seen the
\* key error
SendReject ==
    /\ send.kind \in {"send", "failed"}
    /\ send' = Idle
    /\ UNCHANGED <<chatSessions, apiKey, openaiClient, now, gen, consumer, upstream>>
    /\ OnlyChat

----------------------------------------------------------------------------
(* ai.ts sendMessageStream (the generator) and api.ts sendChatMessageStream   *)
(* (its consumer, with the cancelled flag and the caller's callbacks)         *)

Event(type, data) == [type |-> type, data |-> data]

NewGen(projectId) ==
    [kind |-> "stream", pc |-> "new", projectId |-> projectId, sessionId |-> <<>>,
     assistantId |-> <<>>, assistantContent |-> <<>>, out |-> Null, yielded |-> <<>>,
     error |-> Null]

\* sendChatMessageStream is called: the async function starts and awaits
\* getFileContentTree; the cancel function is returned to the caller
SendChatMessageStream(projectId) ==
    /\ consumer.kind = "idle"
    /\ consumer' = [kind |-> "stream", pc |-> "ctx", cancelled |-> FALSE, callbacks |-> <<>>]
    /\ gen' = NewGen(projectId)
    /\ upstream' = <<>>
    /\ UNCHANGED <<chatSessions, apiKey, openaiClient, now, send>>
    /\ OnlyChat

\* the returned cancel function: cancelled = true
Cancel ==
    /\ consumer.kind = "stream"
    /\ ~consumer.cancelled
    /\ consumer' = [consumer EXCEPT !.cancelled = TRUE]
    /\ UNCHANGED <<chatSessions, apiKey, openaiClient, now, gen, upstream, send>>
    /\ OnlyChat

\* getFileContentTree rejects: catch, onError unless cancelled
CtxRejected ==
    /\ consumer.kind = "stream" /\ consumer.pc = "ctx"
    /\ consumer' = [consumer EXCEPT
                      !.pc = "finished",
                      !.callbacks = IF consumer.cancelled THEN @ ELSE Append(@, "error")]
    /\ UNCHANGED <<chatSessions, apiKey, openaiClient, now, gen, upstream, send>>
    /\ OnlyChat

\* first next(): the generator runs to `yield {type: "user"}`
GenStart ==
    /\ consumer.kind = "stream" /\ consumer.pc = "ctx"
    /\ ClientAvailable
    /\ Room(chatSessions)
    /\ openaiClient' = TRUE
    /\ LET cs  == getOrCreateChatSession(chatSessions, gen.projectId, now)
           sid == cs[FindSession(cs, gen.projectId)].id
           ev  == Event("user", UserMsg(now, UserText))
       IN  /\ chatSessions' = Push(cs, sid, ev.data)
           /\ gen' = [gen EXCEPT !.pc = "yieldedUser", !.sessionId = sid,
                                 !.out = Some(ev), !.yielded = <<ev>>]
    /\ consumer' = [consumer EXCEPT !.pc = "await"]
    /\ UNCHANGED <<apiKey, now, upstream, send>>
    /\ OnlyChat

\* first next() without a key: getAIClient throws inside the generator
GenStartNoKey ==
    /\ consumer.kind = "stream" /\ consumer.pc = "ctx"
    /\ ~ClientAvailable
    /\ gen' = [gen EXCEPT !.pc = "threw", !.error = Some(KeyError)]
    /\ consumer' = [consumer EXCEPT !.pc = "await"]
    /\ UNCHANGED <<chatSessions, apiKey, openaiClient, now, upstream, send>>
    /\ OnlyChat

\* where the generator stops next when resumed after a yield
Resume(g, t) ==
    CASE g.pc = "yieldedUser" ->
            [g EXCEPT !.pc = "creating", !.out = Null,
                      !.assistantId = <<"assistant-", t>>, !.assistantContent = <<>>]
      [] g.pc = "yieldedAssistant" -> [g EXCEPT !.pc = "streaming", !.out = Null]
      [] g.pc = "yieldedDone"      -> [g EXCEPT !.pc = "returned", !.out = Null]

\* for await (const chunk of stream) { if (cancelled) break; onMessage(chunk); }
ConsumerTake ==
    /\ consumer.kind = "stream" /\ consumer.pc = "await"
    /\ gen.out # Null
    /\ IF consumer.cancelled
       THEN /\ consumer' = [consumer EXCEPT !.pc = "finished"]
            /\ gen' = [gen EXCEPT !.pc = "closed", !.out = Null]
       ELSE /\ consumer' = [consumer EXCEPT !.callbacks = Append(@, gen.out[1].type)]
            /\ gen' = Resume(gen, now)
    /\ UNCHANGED <<chatSessions, apiKey, openaiClient, now, upstream, send>>
    /\ OnlyChat

\* await client.chat.completions.create({stream: true}) resolves
CreateResolve ==
    /\ gen.kind = "stream" /\ gen.pc = "creating"
    /\ gen' = [gen EXCEPT !.pc = "streaming"]
    /\ UNCHANGED <<chatSessions, apiKey, openaiClient, now, consumer, upstream, send>>
    /\ OnlyChat

\* the request or the stream fails: the generator throws
StreamError ==
    /\ gen.kind = "stream" /\ gen.pc \in {"creating", "streaming"}
    /\ gen' = [gen EXCEPT !.pc = "threw", !.error = Some(UpstreamError)]
    /\ UNCHANGED <<chatSessions, apiKey, openaiClient, now, consumer, upstream, send>>
    /\ OnlyChat

StreamChunkOverwrite(delta) ==
    /\ gen.kind = "stream" /\ gen.pc = "streaming"
    /\ Len(upstream) < MaxChunks
    /\ upstream' = Append(upstream, delta)
    /\ IF delta # NoContent
       THEN LET ev == Event("assistant", AssistantMsg(gen.assistantId, delta))
            IN  gen' = [gen EXCEPT !.pc = "yieldedAssistant", !.assistantContent = delta,
                                   !.out = Some(ev), !.yielded = Append(@, ev)]
       ELSE gen' = gen
    /\ UNCHANGED <<chatSessions, apiKey, openaiClient, now, consumer, send>>
    /\ OnlyChat

\* a chunk arrives: if (delta?.content) { assistantContent += delta.content; yield ... }
StreamChunk(delta) ==
    /\ gen.kind = "stream" /\ gen.pc = "streaming"
    /\ Len(upstream) < MaxChunks
    /\ upstream' = Append(upstream, delta)
    /\ IF delta # NoContent
       THEN LET content == gen.assistantContent \o delta
                ev      == Event("assistant", AssistantMsg(gen.assistantId, content))
            IN  gen' = [gen EXCEPT !.pc = "yieldedAssistant", !.assistantContent = content,
                                   !.out = Some(ev), !.yielded = Append(@, ev)]
       ELSE gen' = gen
    /\ UNCHANGED <<chatSessions, apiKey, openaiClient, now, consumer, send>>
    /\ OnlyChat

\* the completion stream ends: push the final message, yield {type: "done"}
StreamEnd ==
    /\ gen.kind = "stream" /\ gen.pc = "streaming"
    /\ LET ev == Event("done", AssistantMsg(gen.assistantId, gen.assistantContent))
       IN  /\ chatSessions' = Push(chatSessions, gen.sessionId, ev.data)
           /\ gen' = [gen EXCEPT !.pc = "yieldedDone", !.out = Some(ev),
                                 !.yielded = Append(@, ev)]
    /\ UNCHANGED <<apiKey, openaiClient, now, consumer, upstream, send>>
    /\ OnlyChat

ConsumerFinishUnguarded ==
    /\ consumer.kind = "stream" /\ consumer.pc = "await"
    /\ gen.pc = "returned"
    /\ consumer' = [consumer EXCEPT !.pc = "finished", !.callbacks = Append(@, "complete")]
    /\ UNCHANGED <<chatSessions, apiKey, openaiClient, now, gen, upstream, send>>
    /\ OnlyChat

\* the generator has returned: if (!cancelled) onComplete?.()
ConsumerFinish ==
    /\ consumer.kind = "stream" /\ consumer.pc = "await"
    /\ gen.pc = "returned"
    /\ consumer' = [consumer EXCEPT
                      !.pc = "finished",
                      !.callbacks = IF consumer.cancelled THEN @ ELSE Append(@, "complete")]
    /\ UNCHANGED <<chatSessions, apiKey, openaiClient, now, gen, upstream, send>>
    /\ OnlyChat

\* the generator has thrown: catch (error) { if (!cancelled) onError?.(...) }
ConsumerCatch ==
    /\ consumer.kind = "stream" /\ consumer.pc = "await"
    /\ gen.pc = "threw"
    /\ consumer' = [consumer EXCEPT
                      !.pc = "finished",
                      !.callbacks = IF consumer.cancelled THEN @ ELSE Append(@, "error")]
    /\ UNCHANGED <<chatSessions, apiKey, openaiClient, now, gen, upstream, send>>
    /\ OnlyChat

\* the call is over and its closure is dropped
StreamForget ==
    /\ consumer.kind = "stream" /\ consumer.pc = "finished"
    /\ consumer' = Idle
    /\ gen' = Idle
    /\ upstream' = <<>>
    /\ UNCHANGED <<chatSessions, apiKey, openaiClient, now, send>>
    /\ OnlyChat

NextChat ==
    \/ ConfigureApiKey
    \/ Tick
    \/ \E p \in ChatProjects : GetChatHistory(p)
    \/ \E p \in ChatProjects : SendMessage(p)
    \/ \E p \in ChatProjects : SendMessageNoKey(p)
    \/ \E c \in {NoContent, <<"k">>} : SendResolve(c)
    \/ SendReject
    \/ \E p \in StreamProjects : SendChatMessageStream(p)
    \/ Cancel
    \/ CtxRejected
    \/ GenStart
    \/ GenStartNoKey
    \/ ConsumerTake
    \/ CreateResolve
    \/ StreamError
    \/ \E d \in Deltas \cup {NoContent} : StreamChunk(d)
    \/ StreamEnd
    \/ ConsumerFinish
    \/ ConsumerCatch
    \/ StreamForget

----------------------------------------------------------------------------
(* audit.ts calculateScore and projectDelivery.ts determineProductionReadiness *)

MaxChecks == 4

Statuses == {"pass", "warn", "fail"}
\* 'medium' is handled like 'low' and 'high': the code only asks for 'critical'
Impacts  == {"low", "high", "critical"}
Check(status, impact) == [status |-> status, impact |-> impact]
Checks == {Check(st, im) : st \in Statuses, im \in Impacts}
CheckLists == UNION {[1..n -> Checks] : n \in 0..MaxChecks}
ErrorLists == {<<>>, <<"e">>}
ReportedScores == {0, 59, 60, 100}

\* const weights = { pass: 100, warn: 70, fail: 0 }
Weight(status) ==
    CASE status = "pass" -> 100
      [] status = "warn" -> 70
      [] status = "fail" -> 0

\* checks.reduce((sum, check) => sum + weights[check.status], 0)
RECURSIVE TotalWeight(_)
TotalWeight(cks) ==
    IF cks = <<>> THEN 0 ELSE Weight(Head(cks).status) + TotalWeight(Tail(cks))

\* Math.round(x / n) for x >= 0, n > 0: the nearest integer, a half going up
Round(x, n) == (2 * x + n) \div (2 * n)

calculateScoreFloor(cks) ==
    IF Len(cks) = 0 THEN 100 ELSE TotalWeight(cks) \div Len(cks)

calculateScore(cks) ==
    IF Len(cks) = 0 THEN 100 ELSE Round(TotalWeight(cks), Len(cks))

determineProductionReadinessAbove(auditReport) ==
    LET hasCriticalIssues ==
            \E i \in 1..Len(auditReport.checks) :
                /\ auditReport.checks[i].status = "fail"
                /\ auditReport.checks[i].impact = "critical"
    IN  IF hasCriticalIssues THEN FALSE
        ELSE IF auditReport.score <= 60 THEN FALSE
        ELSE IF Len(auditReport.errors) > 0 THEN FALSE
        ELSE TRUE

determineProductionReadiness(auditReport) ==
    LET hasCriticalIssues ==
            \E i \in 1..Len(auditReport.checks) :
                /\ auditReport.checks[i].status = "fail"
                /\ auditReport.checks[i].impact = "critical"
    IN  IF hasCriticalIssues THEN FALSE
        ELSE IF auditReport.score < 60 THEN FALSE
        ELSE IF Len(auditReport.errors) > 0 THEN FALSE
        ELSE TRUE

AuditReport == [checks |-> checks, score |-> score, errors |-> errors]

\* no audit has run
InitAudit ==
    /\ checks = <<>>
    /\ errors = <<>>
    /\ score = 0
    /\ ready = FALSE
    /\ apc = "idle"

\* an AuditResult at hand: the checks the check functions returned, and the score and
\* errors fields of a report
InitReport ==
    /\ checks \in CheckLists
    /\ errors \in ErrorLists
    /\ score \in ReportedScores
    /\ ready = FALSE
    /\ apc = "report"

OnlyAudit == UNCHANGED <<fsVars, chatVars, deliveryVars, dashVars, toolVars>>

\* auditProject: score = calculateScore(checks), errors: []
AuditProject ==
    /\ apc = "report"
    /\ score' = calculateScore(checks)
    /\ errors' = <<>>
    /\ apc' = "audited"
    /\ UNCHANGED <<checks, ready>>
    /\ OnlyAudit

\* deliverProject: readyForProduction = determineProductionReadiness(auditReport)
DeliverProject ==
    /\ apc = "audited"
    /\ ready' = determineProductionReadiness(AuditReport)
    /\ apc' = "delivered"
    /\ UNCHANGED <<checks, errors, score>>
    /\ OnlyAudit

\* determineProductionReadiness applied to the report at hand
DetermineProductionReadiness ==
    /\ apc = "report"
    /\ ready' = determineProductionReadiness(AuditReport)
    /\ apc' = "determined"
    /\ UNCHANGED <<checks, errors, score>>
    /\ OnlyAudit

NextAudit ==
    \/ AuditProject
    \/ DeliverProject
    \/ DetermineProductionReadiness

\* no delivery analysis has been started and no dashboard is mounted
InitDelivery ==
    /\ projectFiles = <<>>
    /\ delivery = Idle
    /\ dpc = "idle"

InitDash ==
    /\ dash = Idle
    /\ loads = <<>>

\* no document is open
InitTools ==
    /\ page = Idle
    /\ scan = Idle
    /\ edits = 0
    /\ flight = Idle

Init == InitFS /\ InitChat /\ InitAudit /\ InitDelivery /\ InitDash /\ InitTools

Spec == Init /\ [][Next]_vars

ChatSpec == Init /\ [][NextChat]_vars

InitAuditSpec ==
    InitFS /\ ids = {PA, PB} /\ InitChat /\ InitReport /\ InitDelivery /\ InitDash /\ InitTools
AuditSpec == InitAuditSpec /\ [][NextAudit]_vars

----------------------------------------------------------------------------
(* JavaScript string and RegExp operations used by audit.ts *)

\* String.prototype.includes
Includes(s, pat) ==
    \E i \in 1..(Len(s) - Len(pat) + 1) : SubSeq(s, i, i + Len(pat) - 1) = pat

\* String.prototype.endsWith
EndsWith(s, suf) ==
    Len(suf) <= Len(s) /\ SubSeq(s, Len(s) - Len(suf) + 1, Len(s)) = suf

UpperCase == <<"A", "B", "C", "D", "E", "F", "G", "H", "I", "J", "K", "L", "M", "N", "O", "P", "Q", "R", "S", "T", "U", "V", "W", "X", "Y", "Z">>
LowerCase == <<"a", "b", "c", "d", "e", "f", "g", "h", "i", "j", "k", "l", "m", "n", "o", "p", "q", "r", "s", "t", "u", "v", "w", "x", "y", "z">>
Digits    == <<"0", "1", "2", "3", "4", "5", "6", "7", "8", "9">>
Range(f)  == {f[i] : i \in DOMAIN f}

Lower(ch) ==
    IF \E i \in 1..Len(UpperCase) : UpperCase[i] = ch
    THEN LowerCase[CHOOSE i \in 1..Len(UpperCase) : UpperCase[i] = ch]
    ELSE ch

\* String.prototype.toLowerCase
ToLowerCase(s) == [i \in 1..Len(s) |-> Lower(s[i])]

\* \s of a RegExp, for the characters that occur in file contents
WhiteSpace == {" ", "\t", "\n", "\r", "\f"}

\* One element of a regular expression: a character class (cls, or its
\* complement when neg) repeated min..max times.  All patterns of audit.ts
\* carry the i flag: a character is looked up by its lower-case form.
Item(cls, neg, min, max) == [cls |-> cls, neg |-> neg, min |-> min, max |-> max]
Unbounded == -1
Lit(str)  == [k \in 1..Len(str) |-> Item({Lower(str[k])}, FALSE, 1, 1)]
InClass(ch, it) == (Lower(ch) \in it.cls) # it.neg

\* the positions at which a match of items that starts at position i can end
RECURSIVE Ends(_, _, _)
Ends(s, i, items) ==
    IF items = <<>> THEN {i}
    ELSE LET it   == Head(items)
             most == IF it.max = Unbounded THEN Len(s) - i + 1 ELSE it.max
             runs == {n \in it.min..most :
                         /\ i + n - 1 <= Len(s)
                         /\ \A k \in i..(i + n - 1) : InClass(s[k], it)}
         IN  UNION {Ends(s, i + n, Tail(items)) : n \in runs}

\* RegExp.prototype.test of a pattern without the g flag: a match anywhere
Test(items, s) == \E i \in 1..(Len(s) + 1) : Ends(s, i, items) # {}

AlphaNumeric == Range(LowerCase) \cup Range(Digits)
Separators   == {"\"", ":", "="} \cup WhiteSpace

\* the patterns with 21 characters asked of a key or secret
secretPatternsLonger ==
    << Lit(<<"a", "p", "i">>) \o <<Item({"_", "-"}, FALSE, 0, 1)>> \o Lit(<<"k", "e", "y">>)
           \o <<Item(Separators, FALSE, 1, Unbounded), Item(AlphaNumeric, FALSE, 21, Unbounded)>>,
       Lit(<<"s", "e", "c", "r", "e", "t">>)
           \o <<Item(Separators, FALSE, 1, Unbounded), Item(AlphaNumeric, FALSE, 21, Unbounded)>>,
       Lit(<<"p", "a", "s", "s", "w", "o", "r", "d">>)
           \o <<Item(Separators, FALSE, 1, Unbounded),
                Item({"\"", "'"} \cup WhiteSpace, TRUE, 8, Unbounded)>> >>

\* /api[_-]?key["\s:=]+[a-zA-Z0-9]{20,}/i, /secret["\s:=]+[a-zA-Z0-9]{20,}/i,
\* /password["\s:=]+[^"'\s]{8,}/i
secretPatterns ==
    << Lit(<<"a", "p", "i">>) \o <<Item({"_", "-"}, FALSE, 0, 1)>> \o Lit(<<"k", "e", "y">>)
           \o <<Item(Separators, FALSE, 1, Unbounded), Item(AlphaNumeric, FALSE, 20, Unbounded)>>,
       Lit(<<"s", "e", "c", "r", "e", "t">>)
           \o <<Item(Separators, FALSE, 1, Unbounded), Item(AlphaNumeric, FALSE, 20, Unbounded)>>,
       Lit(<<"p", "a", "s", "s", "w", "o", "r", "d">>)
           \o <<Item(Separators, FALSE, 1, Unbounded),
                Item({"\"", "'"} \cup WhiteSpace, TRUE, 8, Unbounded)>> >>

\* /\.(jpg|jpeg|png|gif|webp)$/i
ImageExtensions == {<<".", "j", "p", "g">>, <<".", "j", "p", "e", "g">>, <<".", "p", "n", "g">>, <<".", "g", "i", "f">>, <<".", "w", "e", "b", "p">>}
IsImagePath(path) == \E ext \in ImageExtensions : EndsWith(ToLowerCase(path), ext)

\* /<img[^>]*alt=/i
ImgWithAlt == Lit(<<"<", "i", "m", "g">>) \o <<Item({">"}, TRUE, 0, Unbounded)>> \o Lit(<<"a", "l", "t", "=">>)

----------------------------------------------------------------------------
(* JSON.parse and the object operations applied to its result.  Values are  *)
(* tagged records; the grammar covers objects, strings without escapes,     *)
(* unsigned integers and the three literals.                                *)

JNull      == [t |-> "null"]
JUndefined == [t |-> "undefined"]
JBool(b)   == [t |-> "bool", b |-> b]
JNum(d)    == [t |-> "num", d |-> d]
JStr(s)    == [t |-> "str", s |-> s]
JObj(m)    == [t |-> "obj", m |-> m]
Failed     == [ok |-> FALSE, v |-> JUndefined, i |-> 0]
Parsed(v, i) == [ok |-> TRUE, v |-> v, i |-> i]

At(s, i) == IF i \in 1..Len(s) THEN s[i] ELSE ""
LitAt(s, i, word) == i + Len(word) - 1 <= Len(s) /\ SubSeq(s, i, i + Len(word) - 1) = word

\* the first position from i on that holds no white space
SkipWs(s, i) ==
    CHOOSE j \in i..(Len(s) + 1) :
        /\ At(s, j) \notin WhiteSpace
        /\ \A k \in i..(j - 1) : s[k] \in WhiteSpace

ParseString(s, i) ==
    IF At(s, i) # "\"" THEN Failed
    ELSE LET closing == {j \in (i + 1)..Len(s) : s[j] = "\""}
         IN  IF closing = {} THEN Failed
             ELSE LET j == CHOOSE c \in closing : \A d \in closing : c <= d
                  IN  Parsed(JStr(SubSeq(s, i + 1, j - 1)), j + 1)

ParseNumber(s, i) ==
    LET j == CHOOSE e \in i..(Len(s) + 1) :
                 /\ At(s, e) \notin Range(Digits)
                 /\ \A k \in i..(e - 1) : s[k] \in Range(Digits)
    IN  IF j = i \/ (j > i + 1 /\ s[i] = "0") THEN Failed
        ELSE Parsed(JNum(SubSeq(s, i, j - 1)), j)

RECURSIVE ParseValue(_, _)
RECURSIVE ParseMembers(_, _, _)

\* the members of an object from position i on, after those in m
ParseMembers(s, i, m) ==
    LET key == ParseString(s, i)
        c   == SkipWs(s, key.i)
        val == ParseValue(s, SkipWs(s, c + 1))
        e   == SkipWs(s, val.i)
    IN  IF ~key.ok \/ At(s, c) # ":" THEN Failed
        ELSE IF ~val.ok THEN Failed
        ELSE LET more == Append(m, [k |-> key.v.s, v |-> val.v])
             IN  IF At(s, e) = "}" THEN Parsed(JObj(more), e + 1)
                 ELSE IF At(s, e) = "," THEN ParseMembers(s, SkipWs(s, e + 1), more)
                 ELSE Failed

ParseValue(s, i) ==
    IF At(s, i) = "{"
    THEN LET j == SkipWs(s, i + 1)
         IN  IF At(s, j) = "}" THEN Parsed(JObj(<<>>), j + 1) ELSE ParseMembers(s, j, <<>>)
    ELSE IF At(s, i) = "\"" THEN ParseString(s, i)
    ELSE IF LitAt(s, i, <<"n", "u", "l", "l">>) THEN Parsed(JNull, i + 4)
    ELSE IF LitAt(s, i, <<"t", "r", "u", "e">>) THEN Parsed(JBool(TRUE), i + 4)
    ELSE IF LitAt(s, i, <<"f", "a", "l", "s", "e">>) THEN Parsed(JBool(FALSE), i + 5)
    ELSE ParseNumber(s, i)

\* JSON.parse that takes the text "null" for an empty object
JSONParseNullAsObject(text) ==
    LET r == ParseValue(text, SkipWs(text, 1))
    IN  IF r.ok /\ SkipWs(text, r.i) = Len(text) + 1
        THEN [ok |-> TRUE, v |-> IF r.v.t = "null" THEN JObj(<<>>) ELSE r.v]
        ELSE [ok |-> FALSE, v |-> JUndefined]

\* JSON.parse(text): ok = FALSE stands for the SyntaxError
JSONParse(text) ==
    LET r == ParseValue(text, SkipWs(text, 1))
    IN  IF r.ok /\ SkipWs(text, r.i) = Len(text) + 1
        THEN [ok |-> TRUE, v |-> r.v]
        ELSE [ok |-> FALSE, v |-> JUndefined]

\* v.name: a TypeError (ok = FALSE) on null and undefined, undefined on a
\* primitive, the last member of that name on an object
GetProp(v, name) ==
    IF v.t \in {"null", "undefined"} THEN [ok |-> FALSE, v |-> JUndefined]
    ELSE IF v.t # "obj" THEN [ok |-> TRUE, v |-> JUndefined]
    ELSE LET hits == {i \in 1..Len(v.m) : v.m[i].k = name}
         IN  IF hits = {} THEN [ok |-> TRUE, v |-> JUndefined]
             ELSE [ok |-> TRUE, v |-> v.m[CHOOSE i \in hits : \A j \in hits : j <= i].v]

\* ToBoolean
Truthy(v) ==
    CASE v.t = "obj"  -> TRUE
      [] v.t = "str"  -> v.s # <<>>
      [] v.t = "num"  -> v.d # <<"0">>
      [] v.t = "bool" -> v.b
      [] OTHER        -> FALSE

\* the decimal numeral of an index of a string
Numeral(n) == IF n < 10 THEN <<Digits[n + 1]>> ELSE <<Digits[(n \div 10) + 1], Digits[(n % 10) + 1]>>

\* the own enumerable properties that Object.keys, Object.entries and
\* the spread { ...v } see: the members of an object (a repeated key once,
\* at its first place, with its last value), the characters of a string,
\* nothing for any other value
Entries(v) ==
    IF v.t = "str" THEN [i \in 1..Len(v.s) |-> [k |-> Numeral(i - 1), v |-> JStr(<<v.s[i]>>)]]
    ELSE IF v.t # "obj" THEN <<>>
    ELSE LET first == {i \in 1..Len(v.m) : \A j \in 1..(i - 1) : v.m[j].k # v.m[i].k}
             RECURSIVE Walk(_)
             Walk(i) ==
                 IF i > Len(v.m) THEN <<>>
                 ELSE IF i \in first
                      THEN <<[k |-> v.m[i].k, v |-> GetProp(v, v.m[i].k).v]>> \o Walk(i + 1)
                      ELSE Walk(i + 1)
         IN  Walk(1)

\* { ...a, ...b }
Spread(a, b) == JObj(Entries(a) \o Entries(b))

----------------------------------------------------------------------------
(* audit.ts: the checks over the files returned by listFiles *)

File(path, content) == [path |-> path, content |-> content]
AuditCheck(id, name, status, impact) ==
    [id |-> id, name |-> name, status |-> status, impact |-> impact]

\* files.some(f => f.path ...) and files.some(f => f.content ...)
SomePath(files, P(_))    == \E i \in 1..Len(files) : P(files[i].path)
SomeContent(files, P(_)) == \E i \in 1..Len(files) : P(files[i].content)

\* files.find(f => f.path === 'package.json')
FindPackageJson(files) ==
    LET hits == {i \in 1..Len(files) : files[i].path = <<"p", "a", "c", "k", "a", "g", "e", ".", "j", "s", "o", "n">>}
    IN  IF hits = {} THEN Null
        ELSE Some(files[CHOOSE i \in hits : \A j \in hits : i <= j])

\* checkSecurity that fails sec-001 on a committed environment file
checkSecurityEnvFails(files) ==
    LET IsEnv(p) == p = <<".", "e", "n", "v">> \/ p = <<".", "e", "n", "v", ".", "l", "o", "c", "a", "l">>
        hasEnvFile == SomePath(files, IsEnv)
        IsSecret(c) == \E k \in 1..Len(secretPatterns) : Test(secretPatterns[k], c)
        hasHardcodedSecrets == SomeContent(files, IsSecret)
    IN  << AuditCheck("sec-001", "Environment Variables",
                      IF hasEnvFile THEN "fail" ELSE "pass", "critical"),
           AuditCheck("sec-002", "Hardcoded Secrets",
                      IF hasHardcodedSecrets THEN "fail" ELSE "pass", "critical"),
           AuditCheck("sec-003", "HTTPS Configuration", "warn", "high") >>

checkSecurity(files) ==
    LET IsEnv(p) == p = <<".", "e", "n", "v">> \/ p = <<".", "e", "n", "v", ".", "l", "o", "c", "a", "l">>
        hasEnvFile == SomePath(files, IsEnv)
        IsSecret(c) == \E k \in 1..Len(secretPatterns) : Test(secretPatterns[k], c)
        hasHardcodedSecrets == SomeContent(files, IsSecret)
        IsHttps(c) == Includes(c, <<"h", "t", "t", "p", "s", ":", "/", "/">>)
                          /\ (Includes(c, <<"n", "e", "x", "t", ".", "c", "o", "n", "f", "i", "g">>) \/ Includes(c, <<"s", "e", "c", "u", "r", "i", "t", "y">>))
        hasHttpsCheck == SomeContent(files, IsHttps)
    IN  << AuditCheck("sec-001", "Environment Variables",
                      IF hasEnvFile THEN "warn" ELSE "pass", "critical"),
           AuditCheck("sec-002", "Hardcoded Secrets",
                      IF hasHardcodedSecrets THEN "fail" ELSE "pass", "critical"),
           AuditCheck("sec-003", "HTTPS Configuration",
                      IF hasHttpsCheck THEN "pass" ELSE "warn", "high") >>

\* depCount > 50
MaxDependencies == 50

\* Object.keys(pkg.dependencies || {}).length inside the try block; ok = FALSE
\* when JSON.parse or the property access throws
DepCount(content) ==
    LET pkg  == JSONParse(content)
        deps == GetProp(pkg.v, <<"d", "e", "p", "e", "n", "d", "e", "n", "c", "i", "e", "s">>)
    IN  IF ~pkg.ok \/ ~deps.ok THEN [ok |-> FALSE, n |-> 0]
        ELSE [ok |-> TRUE,
              n  |-> IF Truthy(deps.v) THEN Len(Entries(deps.v)) ELSE 0]

PerfImageAndSplitting(files) ==
    LET hasImages == SomePath(files, IsImagePath)
        UsesImage(c) == Includes(c, <<"n", "e", "x", "t", "/", "i", "m", "a", "g", "e">>) \/ Includes(c, <<"<", "I", "m", "a", "g", "e">>)
        usesNextImage == SomeContent(files, UsesImage)
        IsDynamic(c) == Includes(c, <<"d", "y", "n", "a", "m", "i", "c", "(">>) \/ Includes(c, <<"i", "m", "p", "o", "r", "t", "(">>)
        hasDynamicImports == SomeContent(files, IsDynamic)
    IN  << AuditCheck("perf-001", "Image Optimization",
                      IF hasImages /\ ~usesNextImage THEN "warn" ELSE "pass", "medium"),
           AuditCheck("perf-002", "Code Splitting",
                      IF hasDynamicImports THEN "pass" ELSE "warn", "medium") >>

BundleSize(depCount) ==
    AuditCheck("perf-003", "Bundle Size",
               IF depCount > MaxDependencies THEN "warn" ELSE "pass", "medium")

\* checkPerformance that reports the bundle size of every project
checkPerformanceAlways(files) ==
    LET packageJson == FindPackageJson(files)
    IN  PerfImageAndSplitting(files)
            \o <<BundleSize(IF packageJson = Null THEN 0 ELSE DepCount(packageJson[1].content).n)>>

checkPerformance(files) ==
    LET packageJson == FindPackageJson(files)
    IN  PerfImageAndSplitting(files)
            \o IF packageJson = Null THEN <<>>
               ELSE LET count == DepCount(packageJson[1].content)
                    IN  IF count.ok THEN <<BundleSize(count.n)>> ELSE <<>>

checkAccessibility(files) ==
    LET NoAlt(c) == Includes(c, <<"<", "i", "m", "g">>) /\ ~Test(ImgWithAlt, c)
        hasImgWithoutAlt == SomeContent(files, NoAlt)
        Semantic(c) == Includes(c, <<"<", "n", "a", "v">>) \/ Includes(c, <<"<", "m", "a", "i", "n">>) \/ Includes(c, <<"<", "h", "e", "a", "d", "e", "r">>)
        usesSemanticHtml == SomeContent(files, Semantic)
    IN  << AuditCheck("a11y-001", "Image Alt Text",
                      IF hasImgWithoutAlt THEN "warn" ELSE "pass", "medium"),
           AuditCheck("a11y-002", "Semantic HTML",
                      IF usesSemanticHtml THEN "pass" ELSE "warn", "low") >>

\* checkBestPractices that fails a project without a README
checkBestPracticesStrict(files) ==
    LET IsReadme(p) == ToLowerCase(p) = <<"r", "e", "a", "d", "m", "e", ".", "m", "d">>
        IsGitignore(p) == p = <<".", "g", "i", "t", "i", "g", "n", "o", "r", "e">>
        IsTs(p) == EndsWith(p, <<".", "t", "s">>) \/ EndsWith(p, <<".", "t", "s", "x">>)
    IN  << AuditCheck("bp-001", "Documentation",
                      IF SomePath(files, IsReadme) THEN "pass" ELSE "fail", "medium"),
           AuditCheck("bp-002", "Git Configuration",
                      IF SomePath(files, IsGitignore) THEN "pass" ELSE "warn", "medium"),
           AuditCheck("bp-003", "Type Safety",
                      IF SomePath(files, IsTs) THEN "pass" ELSE "warn", "low") >>

checkBestPractices(files) ==
    LET IsReadme(p) == ToLowerCase(p) = <<"r", "e", "a", "d", "m", "e", ".", "m", "d">>
        IsGitignore(p) == p = <<".", "g", "i", "t", "i", "g", "n", "o", "r", "e">>
        IsTs(p) == EndsWith(p, <<".", "t", "s">>) \/ EndsWith(p, <<".", "t", "s", "x">>)
    IN  << AuditCheck("bp-001", "Documentation",
                      IF SomePath(files, IsReadme) THEN "pass" ELSE "warn", "medium"),
           AuditCheck("bp-002", "Git Configuration",
                      IF SomePath(files, IsGitignore) THEN "pass" ELSE "warn", "medium"),
           AuditCheck("bp-003", "Type Safety",
                      IF SomePath(files, IsTs) THEN "pass" ELSE "warn", "low") >>

checkCodeQuality(files) ==
    LET IsScript(p) == \/ EndsWith(p, <<".", "t", "s">>) \/ EndsWith(p, <<".", "t", "s", "x">>)
                       \/ EndsWith(p, <<".", "j", "s">>) \/ EndsWith(p, <<".", "j", "s", "x">>)
        Logs(c) == Includes(c, <<"c", "o", "n", "s", "o", "l", "e", ".", "l", "o", "g">>)
        hasConsoleLogs == SomePath(files, IsScript) /\ SomeContent(files, Logs)
        TryCatch(c) == Includes(c, <<"t", "r", "y">>) /\ Includes(c, <<"c", "a", "t", "c", "h">>)
        hasTryCatch == SomeContent(files, TryCatch)
    IN  << AuditCheck("cq-001", "Debug Statements",
                      IF hasConsoleLogs THEN "warn" ELSE "pass", "low"),
           AuditCheck("cq-002", "Error Handling",
                      IF hasTryCatch THEN "pass" ELSE "warn", "medium") >>

Improvement(id, title, priority) == [id |-> id, title |-> title, priority |-> priority]

suggestImprovements(files) ==
    LET IsTest(p) == Includes(p, <<".", "t", "e", "s", "t", ".">>) \/ Includes(p, <<".", "s", "p", "e", "c", ".">>) \/ Includes(p, <<"_", "_", "t", "e", "s", "t", "s", "_", "_">>)
        IsCI(p) == \/ Includes(p, <<".", "g", "i", "t", "h", "u", "b", "/", "w", "o", "r", "k", "f", "l", "o", "w", "s">>) \/ Includes(p, <<".", "g", "i", "t", "l", "a", "b", "-", "c", "i">>)
                   \/ Includes(p, <<".", "c", "i", "r", "c", "l", "e", "c", "i">>)
    IN  (IF SomePath(files, IsTest) THEN <<>>
         ELSE <<Improvement("imp-001", "Add Unit Tests", "high")>>)
            \o (IF SomePath(files, IsCI) THEN <<>>
                ELSE <<Improvement("imp-002", "Set Up CI/CD Pipeline", "medium")>>)
            \o <<Improvement("imp-003", "Add Performance Monitoring", "medium")>>

AllChecks(files) ==
    checkSecurity(files) \o checkPerformance(files) \o checkAccessibility(files)
        \o checkBestPractices(files) \o checkCodeQuality(files)

\* auditProject that scores a project without files as a vacuous pass
auditProjectVacuous(files) ==
    [checks       |-> AllChecks(files),
     improvements |-> suggestImprovements(files),
     score        |-> IF Len(files) = 0 THEN 100 ELSE calculateScore(AllChecks(files)),
     errors       |-> <<>>]

\* auditProject on the files that its listFiles call returned
auditProject(files) ==
    [checks       |-> AllChecks(files),
     improvements |-> suggestImprovements(files),
     score        |-> calculateScore(AllChecks(files)),
     errors       |-> <<>>]

----------------------------------------------------------------------------
(* audit.ts analyzeProject, deployment.ts generateDeploymentGuide and         *)
(* projectDelivery.ts generateNextSteps                                       *)

\* fileCount > 50 ? 'complex' : fileCount > 20 ? 'medium' : 'simple'
ComplexFiles == 50
MediumFiles  == 20

\* v?.[name]
Lookup(v, name) ==
    LET es   == Entries(v)
        hits == {i \in 1..Len(es) : es[i].k = name}
    IN  IF hits = {} THEN JUndefined ELSE es[CHOOSE i \in hits : TRUE].v

\* the DependencyInfo entries pushed inside the try block, [] when
\* JSON.parse or a property access of pkg throws
Dependencies(content) ==
    LET pkg  == JSONParse(content)
        prod == GetProp(pkg.v, <<"d", "e", "p", "e", "n", "d", "e", "n", "c", "i", "e", "s">>)
        dev  == GetProp(pkg.v, <<"d", "e", "v", "D", "e", "p", "e", "n", "d", "e", "n", "c", "i", "e", "s">>)
    IN  IF ~pkg.ok \/ ~prod.ok \/ ~dev.ok THEN <<>>
        ELSE LET deps == Entries(Spread(prod.v, dev.v))
             IN  [i \in 1..Len(deps) |->
                     [name    |-> deps[i].k,
                      version |-> deps[i].v,
                      type    |-> IF Truthy(Lookup(prod.v, deps[i].k))
                                  THEN "production" ELSE "development"]]

RECURSIVE TotalSize(_)
TotalSize(files) ==
    IF files = <<>> THEN 0 ELSE Len(Head(files).content) + TotalSize(Tail(files))

\* analyzeProject on the files that its listFiles call returned
analyzeProject(files) ==
    LET IsNextConfig(p) == Includes(p, <<"n", "e", "x", "t", ".", "c", "o", "n", "f", "i", "g">>)
        IsReact(c) == Includes(c, <<"r", "e", "a", "c", "t">>) \/ Includes(c, <<"R", "e", "a", "c", "t">>)
        hasNextConfig == SomePath(files, IsNextConfig)
        hasReact == SomeContent(files, IsReact)
        packageJson == FindPackageJson(files)
        fileCount == Len(files)
        IsTest(p) == Includes(p, <<".", "t", "e", "s", "t", ".">>) \/ Includes(p, <<".", "s", "p", "e", "c", ".">>)
        IsDoc(p) == Includes(ToLowerCase(p), <<"r", "e", "a", "d", "m", "e">>)
        IsCI(p) == Includes(p, <<".", "g", "i", "t", "h", "u", "b", "/", "w", "o", "r", "k", "f", "l", "o", "w", "s">>) \/ Includes(p, <<".", "g", "i", "t", "l", "a", "b", "-", "c", "i">>)
    IN  [projectType  |-> IF hasNextConfig THEN "nextjs"
                          ELSE IF hasReact THEN "react" ELSE "static",
         framework    |-> IF hasNextConfig THEN "Next.js"
                          ELSE IF hasReact THEN "React" ELSE "Unknown",
         dependencies |-> IF packageJson = Null THEN <<>>
                          ELSE Dependencies(packageJson[1].content),
         fileCount    |-> fileCount,
         totalSize    |-> TotalSize(files),
         complexity   |-> IF fileCount > ComplexFiles THEN "complex"
                          ELSE IF fileCount > MediumFiles THEN "medium" ELSE "simple",
         hasTests         |-> SomePath(files, IsTest),
         hasDocumentation |-> SomePath(files, IsDoc),
         hasCI            |-> SomePath(files, IsCI)]

\* selectBestPlatforms that leaves Cloudflare Pages to Next.js projects
selectBestPlatformsNextOnly(analysis) ==
    IF analysis.projectType = "nextjs" THEN <<"vercel", "netlify", "cloudflare-pages">>
    ELSE IF analysis.projectType = "react" THEN <<"vercel", "github-pages">>
    ELSE <<>>

\* the ids of the platforms pushed by selectBestPlatforms
selectBestPlatforms(analysis) ==
    (IF analysis.projectType = "nextjs" THEN <<"vercel", "netlify">>
     ELSE IF analysis.projectType = "react" THEN <<"vercel", "github-pages">>
     ELSE <<>>)
        \o <<"cloudflare-pages">>

\* the names of the required variables of generateEnvironmentSetup
RequiredEnv(analysis) ==
    IF \E i \in 1..Len(analysis.dependencies) : analysis.dependencies[i].name = <<"o", "p", "e", "n", "a", "i">>
    THEN <<"NEXT_PUBLIC_AI_API_KEY">> ELSE <<>>

QuickAction(id, enabled) == [id |-> id, enabled |-> enabled]

\* generateQuickActions that enables every action
generateQuickActionsAllEnabled(analysis) ==
    << QuickAction("qa-001", TRUE), QuickAction("qa-002", TRUE),
       QuickAction("qa-003", TRUE), QuickAction("qa-004", TRUE),
       QuickAction("qa-005", TRUE) >>

\* generateQuickActions: the ids and the enabled flags
generateQuickActions(analysis) ==
    << QuickAction("qa-001", TRUE), QuickAction("qa-002", TRUE),
       QuickAction("qa-003", ~analysis.hasCI), QuickAction("qa-004", TRUE),
       QuickAction("qa-005", TRUE) >>

\* the keys of the actions record of handleQuickAction
QuickActionHandlers == {"qa-001", "qa-002", "qa-003", "qa-004", "qa-005"}

generateDeploymentGuide(analysis) ==
    [projectType          |-> analysis.projectType,
     recommendedPlatforms |-> selectBestPlatforms(analysis),
     environmentSetup     |-> [required |-> RequiredEnv(analysis)],
     quickActions         |-> generateQuickActions(analysis)]

\* immediate.slice(0, 5), shortTerm.slice(0, 5), longTerm.slice(0, 5)
MaxItems == 5

\* Array.prototype.slice(0, n)
Slice(seq, n) == SubSeq(seq, 1, IF Len(seq) < n THEN Len(seq) ELSE n)

\* checks.filter(c => c.status === 'fail' && c.impact === 'critical')
RECURSIVE CriticalChecks(_)
CriticalChecks(cks) ==
    IF cks = <<>> THEN <<>>
    ELSE (IF Head(cks).status = "fail" /\ Head(cks).impact = "critical"
          THEN <<Head(cks)>> ELSE <<>>) \o CriticalChecks(Tail(cks))

ActionItem(id, title, priority) == [id |-> id, title |-> title, priority |-> priority]

\* an item that carries a quickActionId
QuickItem(id, title, priority, quickActionId) ==
    [id |-> id, title |-> title, priority |-> priority, quickActionId |-> quickActionId]

Immediate(auditReport, deploymentGuide) ==
    LET criticalChecks == CriticalChecks(auditReport.checks)
    IN  [i \in 1..Len(criticalChecks) |->
            ActionItem(<<"immediate-", criticalChecks[i].id>>,
                       <<"Fix: ", criticalChecks[i].name>>, "critical")]
        \o (IF Len(criticalChecks) = 0
            THEN << QuickItem(<<"immediate-deploy">>, <<"Deploy to Production">>, "high", "qa-001"),
                    QuickItem(<<"immediate-git">>, <<"Initialize Git Repository">>, "high", "qa-002") >>
            ELSE <<>>)
        \o (IF Len(deploymentGuide.environmentSetup.required) > 0
            THEN <<QuickItem(<<"immediate-env">>, <<"Configure Environment Variables">>, "high", "qa-005")>>
            ELSE <<>>)

ShortTerm(analysis, auditReport) ==
    LET improvements == Slice(auditReport.improvements, 3)
    IN  (IF ~analysis.hasTests
         THEN <<ActionItem(<<"short-tests">>, <<"Add Unit Tests">>, "high")>> ELSE <<>>)
        \o (IF ~analysis.hasCI
            THEN <<QuickItem(<<"short-ci">>, <<"Set Up CI/CD Pipeline">>, "medium", "qa-003")>> ELSE <<>>)
        \o <<QuickItem(<<"short-monitoring">>, <<"Add Monitoring and Analytics">>, "medium", "qa-004")>>
        \o [i \in 1..Len(improvements) |->
               ActionItem(<<"short-imp-", Digits[i]>>, <<improvements[i].title>>,
                          IF improvements[i].priority = "high" THEN "high" ELSE "medium")]

LongTerm(analysis) ==
    << ActionItem(<<"long-perf">>, <<"Performance Optimization">>, "medium"),
       ActionItem(<<"long-security">>, <<"Security Hardening">>, "high") >>
        \o (IF analysis.complexity # "simple"
            THEN <<ActionItem(<<"long-scale">>, <<"Scalability Planning">>, "medium")>> ELSE <<>>)
        \o <<ActionItem(<<"long-docs">>, <<"Documentation Enhancement">>, "low")>>

\* generateNextSteps that returns the three lists whole
generateNextStepsWhole(analysis, auditReport, deploymentGuide) ==
    [immediate |-> Immediate(auditReport, deploymentGuide),
     shortTerm |-> ShortTerm(analysis, auditReport),
     longTerm  |-> LongTerm(analysis)]

generateNextSteps(analysis, auditReport, deploymentGuide) ==
    [immediate |-> Slice(Immediate(auditReport, deploymentGuide), MaxItems),
     shortTerm |-> Slice(ShortTerm(analysis, auditReport), MaxItems),
     longTerm  |-> Slice(LongTerm(analysis), MaxItems)]

----------------------------------------------------------------------------
(* The projects analysed: files that take each branch of the checks, in the  *)
(* ascending path order of listFiles                                          *)

EnvFile == File(<<".", "e", "n", "v">>, <<>>)
WorkflowFile == File(<<".", "g", "i", "t", "h", "u", "b", "/", "w", "o", "r", "k", "f", "l", "o", "w", "s", "/", "c", "i", ".", "y", "m", "l">>, <<>>)
GitignoreFile == File(<<".", "g", "i", "t", "i", "g", "n", "o", "r", "e">>, <<>>)
ReadmeFile == File(<<"R", "E", "A", "D", "M", "E", ".", "m", "d">>, <<>>)
TestFile == File(<<"a", ".", "t", "e", "s", "t", ".", "t", "s">>, <<>>)
LogFile == File(<<"a", ".", "t", "s">>, <<"c", "o", "n", "s", "o", "l", "e", ".", "l", "o", "g", "(", "1", ")">>)
HtmlFile == File(<<"h", ".", "h", "t", "m", "l">>, <<"<", "i", "m", "g", " ", "s", "r", "c", "=", "x", ">">>)
ImageFile == File(<<"i", ".", "p", "n", "g">>, <<"<", "i", "m", "g", " ", "s", "r", "c", "=", "x", ">", " ", "c", "o", "n", "s", "o", "l", "e", ".", "l", "o", "g", "(", "1", ")">>)
KeyFile == File(<<"k", ".", "j", "s">>, <<"A", "P", "I", "_", "K", "E", "Y", " ", "=", " ", "\"", "a", "b", "c", "d", "e", "f", "g", "h", "i", "j", "0", "1", "2", "3", "4", "5", "6", "7", "8", "9", "\"">>)
ShortKeyFile == File(<<"n", ".", "j", "s">>, <<"A", "P", "I", "_", "K", "E", "Y", " ", "=", " ", "\"", "a", "b", "c", "d", "e", "f", "g", "h", "i", "j", "0", "1", "2", "3", "4", "5", "6", "7", "8", "\"">>)
NextConfigFile == File(<<"n", "e", "x", "t", ".", "c", "o", "n", "f", "i", "g", ".", "j", "s">>, <<"h", "t", "t", "p", "s", ":", "/", "/", "n", "e", "x", "t", ".", "c", "o", "n", "f", "i", "g">>)
PageFile == File(<<"p", ".", "t", "s", "x">>, <<"i", "m", "p", "o", "r", "t", " ", "R", "e", "a", "c", "t", ";", " ", "<", "n", "a", "v", ">", "<", "I", "m", "a", "g", "e", "/", ">", "<", "i", "m", "g", " ", "a", "l", "t", "=", "x", ">", " ", "d", "y", "n", "a", "m", "i", "c", "(", " ", "t", "r", "y", " ", "c", "a", "t", "c", "h">>)
PkgOpenai == File(<<"p", "a", "c", "k", "a", "g", "e", ".", "j", "s", "o", "n">>, <<"{", "\"", "d", "e", "p", "e", "n", "d", "e", "n", "c", "i", "e", "s", "\"", ":", "{", "\"", "o", "p", "e", "n", "a", "i", "\"", ":", "\"", "1", "\"", "}", "}">>)
PkgDev == File(<<"p", "a", "c", "k", "a", "g", "e", ".", "j", "s", "o", "n">>, <<"{", "\"", "d", "e", "v", "D", "e", "p", "e", "n", "d", "e", "n", "c", "i", "e", "s", "\"", ":", " ", "{", "\"", "j", "e", "s", "t", "\"", ":", " ", "\"", "1", "\"", "}", "}">>)
PkgEmpty == File(<<"p", "a", "c", "k", "a", "g", "e", ".", "j", "s", "o", "n">>, <<"{", "}">>)
PkgFive == File(<<"p", "a", "c", "k", "a", "g", "e", ".", "j", "s", "o", "n">>, <<"5">>)
PkgNull == File(<<"p", "a", "c", "k", "a", "g", "e", ".", "j", "s", "o", "n">>, <<"n", "u", "l", "l">>)
PkgBroken == File(<<"p", "a", "c", "k", "a", "g", "e", ".", "j", "s", "o", "n">>, <<"{">>)
PasswordFile == File(<<"p", "w">>, <<"p", "a", "s", "s", "w", "o", "r", "d", ":", " ", "h", "u", "n", "t", "e", "r", "2", "x">>)

Candidates ==
    << EnvFile, WorkflowFile, GitignoreFile, ReadmeFile, TestFile,
       LogFile, HtmlFile, ImageFile, KeyFile, ShortKeyFile,
       NextConfigFile, PageFile, PkgOpenai, PkgDev, PkgEmpty,
       PkgFive, PkgNull, PkgBroken, PasswordFile >>

\* the number of candidate files in one project
MaxFiles == 3

\* files without content that only add to the file count
Filler(i) == File(<<"z", Digits[(i \div 10) + 1], Digits[(i % 10) + 1]>>, <<>>)
FillerCounts == {0, MediumFiles + 1, ComplexFiles + 1}

\* the store holds one file per path
Selections ==
    {S \in SUBSET (1..Len(Candidates)) :
        /\ Cardinality(S) <= MaxFiles
        /\ \A i, j \in S : Candidates[i].path = Candidates[j].path => i = j}

RECURSIVE Pick(_, _)
Pick(S, i) ==
    IF i > Len(Candidates) THEN <<>>
    ELSE (IF i \in S THEN <<Candidates[i]>> ELSE <<>>) \o Pick(S, i + 1)

Listing(S, n) == Pick(S, 1) \o [i \in 1..n |-> Filler(i)]
FileLists == {Listing(S, n) : S \in Selections, n \in FillerCounts}

----------------------------------------------------------------------------
(* projectDelivery.ts deliverProject, one action per awaited step *)

\* generateProjectSummary: the fields copied from the analysis and the audit
\* (recommendations and warnings, two lists of texts, are left out)
generateProjectSummary(analysis, auditReport) ==
    [projectType |-> analysis.projectType,
     framework   |-> analysis.framework,
     score       |-> auditReport.score,
     complexity  |-> analysis.complexity,
     fileCount   |-> analysis.fileCount]

\* the report built so far by a call that is at position pc, after its next
\* awaited step has read the files
DeliverStep(pc, d, files) ==
    CASE pc = "start" ->
             \* const analysis = await analyzeProject(projectId)
             [analysis |-> analyzeProject(files)]
      [] pc = "analyzed" ->
             \* const auditReport = await auditProject(projectId)
             [analysis    |-> d.analysis,
              auditReport |-> auditProject(files)]
      [] pc = "audited" ->
             \* const deploymentGuide = await generateDeploymentGuide(projectId, analysis)
             [analysis        |-> d.analysis,
              auditReport     |-> d.auditReport,
              deploymentGuide |-> generateDeploymentGuide(d.analysis)]
      [] pc = "guided" ->
             \* after the awaited generateMaintenancePlan: generateNextSteps
             [analysis        |-> d.analysis,
              auditReport     |-> d.auditReport,
              deploymentGuide |-> d.deploymentGuide,
              summary         |-> generateProjectSummary(d.analysis, d.auditReport),
              nextSteps       |-> generateNextSteps(d.analysis, d.auditReport, d.deploymentGuide)]
      [] pc = "planned" ->
             \* const projectFiles = await listFiles(projectId); the verdict; return
             [analysis           |-> d.analysis,
              auditReport        |-> d.auditReport,
              deploymentGuide    |-> d.deploymentGuide,
              summary            |-> d.summary,
              nextSteps          |-> d.nextSteps,
              projectFiles       |-> files,
              readyForProduction |-> determineProductionReadiness(d.auditReport)]

NextPc(pc) ==
    CASE pc = "start"    -> "analyzed"
      [] pc = "analyzed" -> "audited"
      [] pc = "audited"  -> "guided"
      [] pc = "guided"   -> "planned"
      [] pc = "planned"  -> "delivered"

OnlyDelivery == UNCHANGED <<fsVars, chatVars, auditVars, dashVars, toolVars>>

\* deliverProject(projectId) is called on a project with these files
InitDeliverySpec ==
    /\ InitFS /\ ids = {PA, PB} /\ InitChat /\ InitAudit /\ InitDash /\ InitTools
    /\ projectFiles \in FileLists
    /\ delivery = Idle
    /\ dpc = "start"

Deliver(pc) ==
    /\ dpc = pc
    /\ delivery' = DeliverStep(pc, delivery, projectFiles)
    /\ dpc' = NextPc(pc)
    /\ UNCHANGED projectFiles
    /\ OnlyDelivery

DeliverAnalyze   == Deliver("start")
DeliverAudit     == Deliver("analyzed")
DeliverGuide     == Deliver("audited")
DeliverNextSteps == Deliver("guided")
DeliverReturn    == Deliver("planned")

NextDelivery ==
    \/ DeliverAnalyze
    \/ DeliverAudit
    \/ DeliverGuide
    \/ DeliverNextSteps
    \/ DeliverReturn

DeliverySpec == InitDeliverySpec /\ [][NextDelivery]_vars

----------------------------------------------------------------------------
(* LoadingSkeleton.tsx DeploymentDashboard: the delivery and loading state,  *)
(* the effect on [projectId] and the loadDeliveryData calls in flight        *)

\* the number of loadDeliveryData calls of one mounted dashboard
MaxRuns == 2

DashProjects == {PA, PC}

\* the files the analysed projects hold
DashStore == writeFile(<<>>, PA, PathX, <<"R", "e", "a", "c", "t">>)

Load(projectId, pc, data) == [projectId |-> projectId, pc |-> pc, data |-> data]

\* loadDeliveryData up to its await: setLoading(true), deliverProject(projectId)
\* started
StartLoad(d, projectId) ==
    [kind |-> "mounted", projectId |-> projectId, delivery |-> d.delivery,
     loading |-> TRUE, toasts |-> d.toasts]

OnlyDash == UNCHANGED <<fsVars, chatVars, auditVars, deliveryVars, toolVars>>

InitDashSpec ==
    /\ ids = DashProjects
    /\ store = DashStore
    /\ projects = ids
    /\ lastModified = {}
    /\ task = Idle
    /\ written = [pr \in Pairs |-> Null]
    /\ expected = [pr \in Pairs |-> Null]
    /\ InitChat /\ InitAudit /\ InitDelivery /\ InitDash /\ InitTools

\* first render (delivery null, loading true) and the effect after it
Mount ==
    \E projectId \in DashProjects :
        /\ dash = Idle
        /\ dash' = StartLoad([delivery |-> Null, toasts |-> 0], projectId)
        /\ loads' = Append(loads, Load(projectId, "start", Idle))
        /\ OnlyDash

\* the parent renders the dashboard with another projectId: the effect runs again
ChangeProject ==
    \E projectId \in DashProjects :
        /\ dash.kind = "mounted"
        /\ projectId # dash.projectId
        /\ Len(loads) < MaxRuns
        /\ dash' = StartLoad(dash, projectId)
        /\ loads' = Append(loads, Load(projectId, "start", Idle))
        /\ OnlyDash

\* an awaited step of deliverProject resolves
LoadStep ==
    \E i \in 1..Len(loads) :
        /\ loads[i].pc \in {"start", "analyzed", "audited", "guided", "planned"}
        /\ loads' = [loads EXCEPT ![i] =
                        Load(loads[i].projectId, NextPc(loads[i].pc),
                             DeliverStep(loads[i].pc, loads[i].data,
                                         listFiles(store, loads[i].projectId)))]
        /\ UNCHANGED dash
        /\ OnlyDash

\* an awaited step that opens the file store rejects: deliverProject has no
\* try block, its promise rejects with nothing returned
LoadReject ==
    \E i \in 1..Len(loads) :
        /\ loads[i].pc \in {"start", "analyzed", "planned"}
        /\ loads' = [loads EXCEPT ![i] = Load(loads[i].projectId, "rejected", Idle)]
        /\ UNCHANGED dash
        /\ OnlyDash

\* setDelivery(data); finally setLoading(false)
LoadResolve ==
    \E i \in 1..Len(loads) :
        /\ loads[i].pc = "delivered"
        /\ dash' = [dash EXCEPT !.delivery = Some(loads[i].data), !.loading = FALSE]
        /\ loads' = [loads EXCEPT ![i].pc = "shown"]
        /\ OnlyDash

\* catch: toast.error('Failed to analyze project'); finally setLoading(false)
LoadCatch ==
    \E i \in 1..Len(loads) :
        /\ loads[i].pc = "rejected"
        /\ dash' = [dash EXCEPT !.toasts = @ + 1, !.loading = FALSE]
        /\ loads' = [loads EXCEPT ![i].pc = "failed"]
        /\ OnlyDash

\* what the dashboard renders
Screen ==
    IF dash.loading THEN "Analyzing Your Project"
    ELSE IF dash.delivery = Null THEN "Analysis Failed"
    ELSE "Project Delivery Dashboard"

NextDash ==
    \/ Mount
    \/ ChangeProject
    \/ LoadStep
    \/ LoadReject
    \/ LoadResolve
    \/ LoadCatch

DashSpec == InitDashSpec /\ [][NextDash]_vars

----------------------------------------------------------------------------
(* The editor saving and deleting files of a project while the dashboard    *)
(* analyses it: api.writeFile and api.deleteFile between the awaits of      *)
(* deliverProject                                                           *)

EditContents == {<<>>, <<"R", "e", "a", "c", "t">>}

\* the number of editor operations in one run
MaxEdits == 1

OnlyEdit == UNCHANGED <<chatVars, auditVars, deliveryVars, dashVars, page, scan, flight>>

\* api.writeFile(containerId, path, content)
EditWrite ==
    \E projectId \in DashProjects, path \in Paths, content \in EditContents :
        /\ dash.kind = "mounted"
        /\ edits < MaxEdits
        /\ edits' = edits + 1
        /\ store' = writeFile(store, projectId, path, content)
        /\ written' = WrittenPut(written, projectId, path, content)
        /\ expected' = ExpectedPut(expected, projectId, path, content)
        /\ lastModified' = updateProject(lastModified, projects, projectId)
        /\ UNCHANGED <<ids, projects, task>>
        /\ OnlyEdit

\* api.deleteFile(containerId, path)
EditDelete ==
    \E projectId \in DashProjects, path \in Paths :
        /\ dash.kind = "mounted"
        /\ edits < MaxEdits
        /\ edits' = edits + 1
        /\ store' = deleteFile(store, projectId, path)
        /\ written' = WrittenDel(written, projectId, path)
        /\ expected' = ExpectedDel(expected, projectId, path)
        /\ lastModified' = updateProject(lastModified, projects, projectId)
        /\ UNCHANGED <<ids, projects, task>>
        /\ OnlyEdit

NextEdit ==
    \/ Mount
    \/ ChangeProject
    \/ LoadStep
    \/ LoadReject
    \/ LoadResolve
    \/ LoadCatch
    \/ EditWrite
    \/ EditDelete

EditSpec == InitDashSpec /\ [][NextEdit]_vars

----------------------------------------------------------------------------
(* The theme: the inline script of RootLayout's <head> and the useTheme     *)
(* hook (its state, its two effects, setTheme), over one document           *)

Themes == {"light", "dark", "system"}

\* how many times the user picks a theme in one run
MaxPicks == 2

OnlyTools == UNCHANGED <<fsVars, chatVars, auditVars, deliveryVars, dashVars, scan, edits, flight>>

\* the inline script: the stored theme or 'system' decides the class added
inlineScript(stored, osDark) ==
    LET theme == IF stored = Null THEN "system" ELSE stored[1]
    IN  IF theme = "dark" \/ (theme = "system" /\ osDark) THEN {"dark"} ELSE {"light"}

\* applyTheme(isDark) of the second effect, on the root's class list
applyTheme(classList, isDark) ==
    IF isDark THEN (classList \cup {"dark"}) \ {"light"}
    ELSE (classList \cup {"light"}) \ {"dark"}

\* the second effect, run with the theme of the render it belongs to; the
\* cleanup of the previous run removes the listener first
applyEffect(pg) ==
    LET isDark == IF pg.theme = "system" THEN pg.osDark ELSE pg.theme = "dark"
    IN  [pg EXCEPT !.classList = applyTheme(pg.classList, isDark),
                   !.resolvedTheme = IF isDark THEN "dark" ELSE "light",
                   !.listener = pg.theme = "system"]

\* the state after the effects of a render: a queued setTheme with another
\* value asks for a new render, otherwise the page is at rest
Settle(pg) ==
    IF pg.pending # Null /\ pg.pending[1] # pg.theme
    THEN [pg EXCEPT !.pc = "render"]
    ELSE [pg EXCEPT !.pc = "rest", !.pending = Null, !.mounted = TRUE]

\* the document is requested: nothing has run yet
Document(stored, osDark, picks) ==
    [kind |-> "page", pc |-> "head", stored |-> stored, osDark |-> osDark,
     classList |-> {}, theme |-> "system", resolvedTheme |-> "light",
     pending |-> Null, listener |-> FALSE, mounted |-> FALSE, picks |-> picks]

InitThemeSpec ==
    /\ InitFS /\ ids = {PA, PB} /\ InitChat /\ InitAudit /\ InitDelivery /\ InitDash
    /\ scan = Idle
    /\ edits = 0
    /\ flight = Idle
    /\ \E stored \in {Null} \cup {Some(t) : t \in Themes}, osDark \in BOOLEAN :
           page = Document(stored, osDark, 0)

\* the inline script of <head> runs before the body is rendered
InlineScript ==
    /\ page.pc = "head"
    /\ page' = [page EXCEPT !.pc = "scripted",
                            !.classList = inlineScript(page.stored, page.osDark)]
    /\ OnlyTools

\* the component using useTheme renders: useState("system"), useState("light")
Hydrate ==
    /\ page.pc = "scripted"
    /\ page' = [page EXCEPT !.pc = "load", !.theme = "system", !.resolvedTheme = "light"]
    /\ OnlyTools

\* the first effect: setTheme(stored) when localStorage holds a value
LoadStored ==
    /\ page.pc = "load"
    /\ page' = [page EXCEPT !.pc = "apply", !.pending = page.stored]
    /\ OnlyTools

\* the second effect, of the render with the current theme state
ApplyEffect ==
    /\ page.pc = "apply"
    /\ page' = Settle(applyEffect(page))
    /\ OnlyTools

\* the render the queued setTheme asked for; [theme] changed, so the second
\* effect is due again
Render ==
    /\ page.pc = "render"
    /\ page' = [page EXCEPT !.pc = "apply", !.theme = page.pending[1], !.pending = Null]
    /\ OnlyTools

\* setAndStoreTheme(newTheme), from the toggle of the mounted page
SetTheme ==
    \E newTheme \in Themes :
        /\ page.pc = "rest"
        /\ page.picks < MaxPicks
        /\ page' = Settle([page EXCEPT !.pending = Some(newTheme),
                                       !.stored = Some(newTheme),
                                       !.picks = page.picks + 1])
        /\ OnlyTools

\* the OS preference changes; the registered listener applies it
MediaChange ==
    /\ page.kind = "page"
    /\ page' = IF page.listener
               THEN [page EXCEPT !.osDark = ~page.osDark,
                                 !.classList = applyTheme(page.classList, ~page.osDark),
                                 !.resolvedTheme = IF ~page.osDark THEN "dark" ELSE "light"]
               ELSE [page EXCEPT !.osDark = ~page.osDark]
    /\ OnlyTools

\* the page is loaded again: localStorage and the OS preference stay
Reload ==
    /\ page.pc = "rest"
    /\ page' = Document(page.stored, page.osDark, page.picks)
    /\ OnlyTools

NextTheme ==
    \/ InlineScript
    \/ Hydrate
    \/ LoadStored
    \/ ApplyEffect
    \/ Render
    \/ SetTheme
    \/ MediaChange
    \/ Reload

ThemeSpec == InitThemeSpec /\ [][NextTheme]_vars

----------------------------------------------------------------------------
(* audit.ts detectWarnings: three RegExp objects with the g flag, created   *)
(* once per call and tested against every file in turn                      *)

\* the number of files of the project scanned
MaxScanFiles == 2

OnlyScan == UNCHANGED <<fsVars, chatVars, auditVars, deliveryVars, dashVars, page, edits, flight>>

\* the sources of the deprecatedPatterns, in order; they carry no i flag
deprecatedPatterns ==
    << <<"c", "o", "m", "p", "o", "n", "e", "n", "t", "W", "i", "l", "l", "M", "o", "u", "n", "t">>,
       <<"c", "o", "m", "p", "o", "n", "e", "n", "t", "W", "i", "l", "l", "R", "e", "c", "e", "i", "v", "e", "P", "r", "o", "p", "s">>,
       <<"U", "N", "S", "A", "F", "E", "_">> >>

\* the 0-based index of the first occurrence of lit in s at or after from, -1
\* when there is none
IndexFrom(s, lit, from) ==
    LET hits == {i \in from..(Len(s) - Len(lit)) : SubSeq(s, i + 1, i + Len(lit)) = lit}
    IN  IF hits = {} THEN -1 ELSE CHOOSE i \in hits : \A j \in hits : i <= j

\* pattern.test(s) of a literal pattern with the g flag: the search starts at
\* lastIndex; a match moves lastIndex behind it, a failure resets it to 0
TestGlobal(lit, lastIndex, s) ==
    LET i == IF lastIndex > Len(s) THEN -1 ELSE IndexFrom(s, lit, lastIndex)
    IN  IF i = -1 THEN [matched |-> FALSE, lastIndex |-> 0]
        ELSE [matched |-> TRUE, lastIndex |-> i + Len(lit)]

Warning(k, path) == [type |-> "deprecated", message |-> k, file |-> path]

\* file contents that hold the patterns at different positions, or not at all
ScanContents ==
    { <<"r", "e", "n", "d", "e", "r", "(", ")">>,
      <<"c", "o", "m", "p", "o", "n", "e", "n", "t", "W", "i", "l", "l", "M", "o", "u", "n", "t">>,
      <<" ", " ", "c", "o", "m", "p", "o", "n", "e", "n", "t", "W", "i", "l", "l", "M", "o", "u", "n", "t", "(", ")">>,
      <<"U", "N", "S", "A", "F", "E", "_", "c", "o", "m", "p", "o", "n", "e", "n", "t", "W", "i", "l", "l", "M", "o", "u", "n", "t">>,
      <<"c", "o", "m", "p", "o", "n", "e", "n", "t", "W", "i", "l", "l", "R", "e", "c", "e", "i", "v", "e", "P", "r", "o", "p", "s">> }

\* the lists of files a scanned project can hold: file i is at path f<i>
ScanLists ==
    UNION {[1..n -> ScanContents] : n \in 0..MaxScanFiles}

ScanFiles(contents) ==
    [i \in 1..Len(contents) |-> File(<<"f", Digits[i + 1]>>, contents[i])]

InitScanSpec ==
    /\ InitFS /\ ids = {PA, PB} /\ InitChat /\ InitAudit /\ InitDelivery /\ InitDash
    /\ page = Idle
    /\ edits = 0
    /\ flight = Idle
    /\ \E contents \in ScanLists :
           scan = [kind |-> "scan", pc |-> "loop", files |-> ScanFiles(contents),
                   file |-> 1, pattern |-> 1, lastIndex |-> <<0, 0, 0>>,
                   warnings |-> <<>>]

\* one pass of the inner loop: pattern.test(file.content) and the push
DetectStep ==
    /\ scan.kind = "scan" /\ scan.pc = "loop"
    /\ scan.file <= Len(scan.files)
    /\ LET f == scan.files[scan.file]
           k == scan.pattern
           r == TestGlobal(deprecatedPatterns[k], scan.lastIndex[k], f.content)
           last == k = Len(deprecatedPatterns)
       IN  scan' = [scan EXCEPT
                       !.lastIndex[k] = r.lastIndex,
                       !.warnings = IF r.matched THEN Append(@, Warning(k, f.path)) ELSE @,
                       !.pattern = IF last THEN 1 ELSE k + 1,
                       !.file = IF last THEN @ + 1 ELSE @]
    /\ OnlyScan

\* the loops are over: return warnings
DetectReturn ==
    /\ scan.kind = "scan" /\ scan.pc = "loop"
    /\ scan.file > Len(scan.files)
    /\ scan' = [scan EXCEPT !.pc = "returned"]
    /\ OnlyScan

NextScan ==
    \/ DetectStep
    \/ DetectReturn

ScanSpec == InitScanSpec /\ [][NextScan]_vars

----------------------------------------------------------------------------
(* preflight.sh: a bash script under set -e that runs its checks in order,  *)
(* reports each with print_success, print_error or print_warning, and exits *)
(* on the count of failures                                                 *)

\* how many checks do not succeed on the machine
MaxFaults == 2

OnlyFlight == UNCHANGED <<fsVars, chatVars, auditVars, deliveryVars, dashVars, page, scan, edits>>

PreflightCheck(name, onBad) == [name |-> name, onBad |-> onBad]

\* the checks in the order of the script, with the report of the else branch
PreflightChecks ==
    << PreflightCheck("node", "error"),              PreflightCheck("bun", "warning"),
       PreflightCheck("typescript", "error"),        PreflightCheck("frontend install", "error"),
       PreflightCheck("frontend lockfile", "warning"),
       PreflightCheck("backend install", "error"),
       PreflightCheck("backend lockfile", "warning"), PreflightCheck("lint", "error"),
       PreflightCheck("prettier", "warning"),        PreflightCheck("frontend tsc", "error"),
       PreflightCheck("backend tsc", "error"),       PreflightCheck("build", "error"),
       PreflightCheck("editorconfig", "warning"),    PreflightCheck("env.example", "warning"),
       PreflightCheck("gitignore", "error"),         PreflightCheck("pre-commit", "warning"),
       PreflightCheck("pre-commit hooks", "error"),  PreflightCheck("ci workflow", "warning"),
       PreflightCheck("git history", "warning"),     PreflightCheck("no committed env", "error") >>

CheckNames == {PreflightChecks[i].name : i \in 1..Len(PreflightChecks)}

\* the print_* calls of one check on a machine where the checks in bad do not
\* succeed: a successful build also reports its output directory, a present
\* .gitignore its two entries (neither report is an error), and the hooks run
\* only when the pre-commit configuration is there
Reports(check, bad) ==
    IF check.name = "pre-commit hooks" /\ "pre-commit" \in bad THEN <<>>
    ELSE IF check.name \in bad THEN <<check.onBad>>
    ELSE IF check.name = "build" THEN <<"success", "success">>
    ELSE IF check.name = "gitignore" THEN <<"success", "success", "success">>
    ELSE <<"success">>

\* ((COUNTER++)) as the last command of a print_* function under set -e: the
\* arithmetic command returns status 1 when the expression, the old value of
\* the counter, is 0, and the shell then exits with that status
RECURSIVE Emit(_, _)
Emit(f, reports) ==
    IF reports = <<>> THEN f
    ELSE LET counter == CASE Head(reports) = "success" -> "CHECKS_PASSED"
                          [] Head(reports) = "error"   -> "CHECKS_FAILED"
                          [] Head(reports) = "warning" -> "CHECKS_WARNED"
             bumped == [f EXCEPT ![counter] = @ + 1]
         IN  IF f[counter] = 0
             THEN [bumped EXCEPT !.pc = "exited", !.status = Some(1)]
             ELSE Emit(bumped, Tail(reports))

\* the summary: exit 0 when CHECKS_FAILED is 0, exit 1 otherwise
Summary(f) ==
    [f EXCEPT !.pc = "exited", !.status = Some(IF f.CHECKS_FAILED = 0 THEN 0 ELSE 1)]

RECURSIVE FaultSets(_)
FaultSets(n) ==
    IF n = 0 THEN {{}}
    ELSE FaultSets(n - 1) \cup {S \cup {c} : S \in FaultSets(n - 1), c \in CheckNames}

InitPreflightSpec ==
    /\ InitFS /\ ids = {PA, PB} /\ InitChat /\ InitAudit /\ InitDelivery /\ InitDash
    /\ page = Idle /\ scan = Idle /\ edits = 0
    /\ \E bad \in FaultSets(MaxFaults) :
           flight = [kind |-> "preflight", pc |-> "run", bad |-> bad, next |-> 1,
                     CHECKS_PASSED |-> 0, CHECKS_FAILED |-> 0, CHECKS_WARNED |-> 0,
                     status |-> Null]

\* the script runs its next check and reports it, or reaches the summary
PreflightStep ==
    /\ flight.kind = "preflight" /\ flight.pc = "run"
    /\ flight' = IF flight.next > Len(PreflightChecks) THEN Summary(flight)
                 ELSE Emit([flight EXCEPT !.next = @ + 1],
                           Reports(PreflightChecks[flight.next], flight.bad))
    /\ OnlyFlight

NextPreflight ==
    \/ PreflightStep

PreflightSpec == InitPreflightSpec /\ [][NextPreflight]_vars

----------------------------------------------------------------------------
(* Properties of the file store *)

\* C3: a content written under (projectId, path) is what getFile and api.readFile
\* return, the empty string included, for as long as no delete removes the key
\* and no later write replaces it.
C3_WriteReadRoundTrip ==
    \A pr \in Pairs :
        written[pr] # Null =>
            /\ getFile(store, pr[1], pr[2]) = written[pr]
            /\ readFile(store, pr[1], pr[2]) = [ok |-> TRUE, content |-> written[pr][1]]

C3_Witness ==
    /\ written[<<PA, PathX>>] = Some("")
    /\ written[<<PA, PathBX>>] = Some("v")
    /\ task.kind = "clear" /\ task.projectId = PC /\ task.pc = "done"

\* C4: a renameFile that ran alone on an existing file leaves the store as
\* writeFile(new, content of old) followed by deleteFile(old) leaves it; the old
\* path then reads as null and api.readFile throws File not found.
C4_RenameIsWriteThenDelete ==
    (task.kind = "rename" /\ task.pc = "done" /\ task.clean) =>
        /\ store = deleteFile(writeFile(task.snap, task.projectId, task.newPath,
                                        getFile(task.snap, task.projectId, task.oldPath)[1]),
                              task.projectId, task.oldPath)
        /\ getFile(store, task.projectId, task.oldPath) = Null
        /\ readFile(store, task.projectId, task.oldPath)
              = [ok |-> FALSE, error |-> <<"File not found: ", task.oldPath>>]

C4_Witness ==
    /\ task.kind = "rename" /\ task.pc = "done" /\ task.clean
    /\ task.oldPath # task.newPath
    /\ getFile(store, task.projectId, task.newPath) = Some("")
    /\ DOMAIN task.snap # {Key(task.projectId, task.oldPath)}

\* C5: every project sees exactly its own files: getFile and listFiles of q
\* return what was written under q and not deleted under q, whatever was done
\* to other projects.
C5_ProjectIsolation ==
    \A q \in ids :
        /\ \A path \in Paths : getFile(store, q, path) = expected[<<q, path>>]
        /\ {listFiles(store, q)[i] : i \in 1..Len(listFiles(store, q))}
             = {[path |-> path, content |-> expected[<<q, path>>][1]] :
                    path \in {r \in Paths : expected[<<q, r>>] # Null}}

\* C6: when deleteContainer(p) has completed with no other caller's store operation
\* in between, p is out of the registry and no file keyed under p remains.
C6_DeleteCascades ==
    (task.kind = "clear" /\ task.container /\ task.pc = "done" /\ task.clean) =>
        /\ task.projectId \notin projects
        /\ listFiles(store, task.projectId) = <<>>
        /\ \A k \in DOMAIN store : ~StartsWith(k, task.projectId \o <<":">>)

C6_Witness ==
    /\ task.kind = "clear" /\ task.container /\ task.pc = "done" /\ task.clean
    /\ task.listed = 2
    /\ DOMAIN store # {}

\* C7: importing an export into a project without files, entries in any order,
\* makes that project's export equal the imported mapping; importing a project's
\* own export into it leaves its export unchanged.
C7_ExportImportRoundTrip ==
    (task.kind = "import" /\ task.pc = "done" /\ task.clean) =>
        /\ task.wasEmpty => exportProject(store, task.projectId) = task.files
        /\ task.source = task.projectId => exportProject(store, task.projectId) = task.files

C7_Witness ==
    /\ task.kind = "import" /\ task.pc = "done" /\ task.clean
    /\ task.wasEmpty /\ task.source # task.projectId
    /\ DOMAIN task.files = Paths
    /\ task.files[PathX] = "" /\ task.files[PathBX] = "v"

\* C12: reading a missing file throws File not found: <path>; a renameFile whose old
\* path is missing throws the same error, leaves the store as it was, and
\* api.renameFile does not update the project's lastModified.
C12_MissingFileThrows ==
    [][/\ \A p \in ids, path \in Paths :
            Key(p, path) \notin DOMAIN store'
                => readFile(store', p, path)
                      = [ok |-> FALSE, error |-> <<"File not found: ", path>>]
       /\ (task'.kind = "rename" /\ task'.pc = "failed") =>
            /\ task'.error = <<"File not found: ", task'.oldPath>>
            /\ task.kind = "idle" => store' = store
            /\ task'.clean => store' = task'.snap
       /\ (task.kind = "rename" /\ task.pc = "failed" /\ task'.kind = "idle") =>
            /\ store' = store
            /\ lastModified' = lastModified]_vars

C12_Witness ==
    /\ task.kind = "rename" /\ task.pc = "failed" /\ task.clean
    /\ task.oldPath # task.newPath
    /\ DOMAIN store # {}
    /\ task.projectId \in projects
    /\ task.projectId \notin lastModified

\* C20: between the write and the delete of a renameFile both keys hold the content;
\* with old # new and no other writer the content is never missing from both keys.
C20_RenameNeverLosesBoth ==
    (task.kind = "rename" /\ task.clean /\ task.pc \in {"write", "delete", "done"}) =>
        /\ task.pc = "delete" =>
              /\ getFile(store, task.projectId, task.oldPath) = task.content
              /\ getFile(store, task.projectId, task.newPath) = task.content
        /\ task.oldPath # task.newPath =>
              \/ getFile(store, task.projectId, task.oldPath) = task.content
              \/ getFile(store, task.projectId, task.newPath) = task.content

C20_Witness ==
    /\ task.kind = "rename" /\ task.clean /\ task.pc = "delete"
    /\ task.oldPath # task.newPath
    /\ Key(task.projectId, task.oldPath) \in DOMAIN store
    /\ Key(task.projectId, task.newPath) \in DOMAIN store
    /\ Key(task.projectId, task.newPath) \notin DOMAIN task.snap

----------------------------------------------------------------------------
(* Properties of the audit score and the readiness verdict *)

CriticalFailure(cks) ==
    \E i \in 1..Len(cks) : cks[i].status = "fail" /\ cks[i].impact = "critical"

\* C1: readyForProduction is true exactly when the score is at least 60, no check
\* fails with critical impact, and the report lists no errors.
C1_ReadinessIff ==
    apc \in {"delivered", "determined"} =>
        (ready <=> (score >= 60 /\ ~CriticalFailure(checks) /\ errors = <<>>))

C1_Witness ==
    /\ apc = "determined" /\ ready
    /\ score = 60 /\ errors = <<>>
    /\ \E i \in 1..Len(checks) : checks[i].status = "fail"
    /\ \E i \in 1..Len(checks) : checks[i].impact = "critical"

CountStatus(cks, status) == Cardinality({i \in 1..Len(cks) : cks[i].status = status})

\* C2: for a non-empty list of checks the score is the mean of the weights pass 100,
\* warn 70, fail 0, rounded to the nearest integer with a half going up, and lies
\* between 0 and 100.
C2_ScoreIsRoundedMean ==
    (apc \in {"audited", "delivered"} /\ Len(checks) > 0) =>
        LET n     == Len(checks)
            total == 100 * CountStatus(checks, "pass") + 70 * CountStatus(checks, "warn")
        IN  /\ score \in 0..100
            /\ 2 * n * score <= 2 * total + n
            /\ 2 * total + n < 2 * n * score + 2 * n

C2_Witness ==
    /\ apc = "audited"
    /\ Len(checks) = 4
    /\ 2 * (100 * CountStatus(checks, "pass") + 70 * CountStatus(checks, "warn")) = 340
    /\ score = 43

----------------------------------------------------------------------------
(* Properties of the chat client *)

RECURSIVE Flatten(_)
Flatten(ss) == IF ss = <<>> THEN <<>> ELSE Head(ss) \o Flatten(Tail(ss))

IsContent(d) == d # NoContent

Transcript(cs, projectId) ==
    IF FindSession(cs, projectId) = 0 THEN <<>>
    ELSE cs[FindSession(cs, projectId)].messages

InTranscript(cs, projectId, msg) ==
    \E i \in 1..Len(Transcript(cs, projectId)) : Transcript(cs, projectId)[i] = msg

\* C8: the events of sendMessageStream are one user event, then assistant events
\* that share one id and carry the deltas concatenated so far, then one done event
\* with the full text, which is the message pushed on the transcript; nothing
\* follows done.
C8_StreamEventOrder ==
    gen.kind = "stream" =>
        LET y  == gen.yielded
            ne == SelectSeq(upstream, IsContent)
        IN  /\ gen.pc \in {"yieldedUser", "creating", "streaming", "yieldedAssistant",
                           "yieldedDone", "returned"} => Len(y) >= 1
            /\ Len(y) >= 1 =>
                  /\ y[1].type = "user"
                  /\ y[1].data.role = "user" /\ y[1].data.content = UserText
                  /\ InTranscript(chatSessions, gen.projectId, y[1].data)
            /\ \A i \in 2..Len(y) :
                  /\ y[i].type \in {"assistant", "done"}
                  /\ y[i].data.role = "assistant"
                  /\ y[i].data.id = y[2].data.id
                  /\ y[i].type = "assistant" =>
                        /\ i - 1 <= Len(ne)
                        /\ y[i].data.content = Flatten(SubSeq(ne, 1, i - 1))
                  /\ y[i].type = "done" =>
                        /\ i = Len(y)
                        /\ y[i].data.content = Flatten(upstream)
                        /\ Len(ne) = i - 2
                        /\ InTranscript(chatSessions, gen.projectId, y[i].data)
            /\ gen.pc \in {"yieldedDone", "returned"} =>
                  /\ Len(y) >= 2
                  /\ y[Len(y)].type = "done"

C8_Witness ==
    /\ gen.kind = "stream" /\ gen.pc = "returned"
    /\ Len(gen.yielded) = 4
    /\ gen.yielded[4].data.content = <<"h", "h">>
    /\ Len(Transcript(chatSessions, gen.projectId)) = 4

\* C9: once cancel has been called, no callback of that call is invoked any more.
C9_NoCallbackAfterCancel ==
    [][(consumer.kind = "stream" /\ consumer.cancelled /\ consumer'.kind = "stream")
          => consumer'.callbacks = consumer.callbacks]_vars

C9_Witness ==
    /\ consumer.kind = "stream" /\ consumer.cancelled /\ consumer.pc = "finished"
    /\ consumer.callbacks = <<"user", "assistant">>
    /\ gen.pc = "closed"
    /\ Len(gen.yielded) = 3 /\ gen.yielded[3].type = "done"

OneSessionPerProject(cs) ==
    \A i, j \in 1..Len(cs) : cs[i].projectId = cs[j].projectId => i = j

\* the project of a sendMessage or sendMessageStream call
ProjectOf(call) == IF call.kind \in {"stream", "send"} THEN {call.projectId} ELSE {}

\* C10: at most one session per project; the list getChatHistory returns only grows;
\* sending for one project does not touch the transcript of another.
C10_TranscriptsGrow ==
    [][/\ OneSessionPerProject(chatSessions')
       /\ \A q \in ChatProjects :
            /\ IsPrefix(getChatHistory(chatSessions, q, now),
                        getChatHistory(chatSessions', q, now'))
            /\ Transcript(chatSessions', q) # Transcript(chatSessions, q)
                  => \/ gen' # gen /\ q \in ProjectOf(gen) \cup ProjectOf(gen')
                     \/ send' # send /\ q \in ProjectOf(send) \cup ProjectOf(send')]_vars

C10_Witness ==
    /\ Len(Transcript(chatSessions, PA)) = 2
    /\ Len(Transcript(chatSessions, PC)) = 2
    /\ now = 1
    /\ chatSessions[1].id # SessionId(chatSessions[1].projectId, 1)
    /\ chatSessions[2].id = SessionId(chatSessions[2].projectId, 1)

\* a completion request is under way
Requesting ==
    \/ send.kind = "send"
    \/ gen.kind = "stream" /\ gen.pc \in {"creating", "streaming"}

C25_TranscriptAlternates ==
    \A s \in 1..Len(chatSessions) : \A i \in 1..Len(chatSessions[s].messages) :
        chatSessions[s].messages[i].role = IF i % 2 = 1 THEN "user" ELSE "assistant"

----------------------------------------------------------------------------
(* Properties of the audit of a file list and of the delivery *)

Audited   == dpc \in {"audited", "guided", "planned", "delivered"}
Ids(cks)  == [i \in 1..Len(cks) |-> cks[i].id]
CheckOf(cks, id) == cks[CHOOSE i \in 1..Len(cks) : cks[i].id = id]

\* C14 as stated: the audit of a project without files scores 100.
C14_EmptyProjectScores100 ==
    (Audited /\ projectFiles = <<>>) => delivery.auditReport.score = 100

\* C14: the audit of a project without files scores 83; 100 is the score of an
\* empty list of checks, which auditProject never builds.
C14_EmptyProjectScores83 ==
    (Audited /\ projectFiles = <<>>) =>
        /\ delivery.auditReport.score = 83
        /\ delivery.auditReport.checks # <<>>

C14_Witness == dpc = "audited" /\ projectFiles = <<>> /\ delivery.auditReport.score < 100

AbsenceStatuses ==
    << <<"sec-001", "pass">>, <<"sec-002", "pass">>, <<"sec-003", "warn">>,
       <<"perf-001", "pass">>, <<"perf-002", "warn">>,
       <<"a11y-001", "pass">>, <<"a11y-002", "warn">>,
       <<"bp-001", "warn">>, <<"bp-002", "warn">>, <<"bp-003", "warn">>,
       <<"cq-001", "pass">>, <<"cq-002", "warn">> >>

\* C15: for a project without files the audit returns its fixed checks, each with
\* the status of its "nothing found" branch: none fails, sec-001 passes, bp-001
\* warns, and the score is the rounded mean of 100 per pass and 70 per warn.
C15_EmptyProjectAbsenceBranches ==
    (Audited /\ projectFiles = <<>>) =>
        LET cks == delivery.auditReport.checks
        IN  /\ [i \in 1..Len(cks) |-> <<cks[i].id, cks[i].status>>] = AbsenceStatuses
            /\ CountStatus(cks, "fail") = 0
            /\ CheckOf(cks, "sec-001").status = "pass"
            /\ CheckOf(cks, "bp-001").status = "warn"
            /\ delivery.auditReport.score
                   = Round(100 * CountStatus(cks, "pass") + 70 * CountStatus(cks, "warn"), Len(cks))

C15_Witness ==
    /\ dpc = "delivered"
    /\ projectFiles = <<>>
    /\ CountStatus(delivery.auditReport.checks, "warn") > 0
    /\ CountStatus(delivery.auditReport.checks, "pass") > 0

ApiKeyLine == <<"A", "P", "I", "_", "K", "E", "Y", " ", "=", " ", "\"", "a", "b", "c", "d", "e", "f", "g", "h", "i", "j", "0", "1", "2", "3", "4", "5", "6", "7", "8", "9", "\"">>
HasApiKeyLine == \E i \in 1..Len(projectFiles) : projectFiles[i].content = ApiKeyLine

\* C16: whenever some file's content is API_KEY = "abcdefghij0123456789", the
\* sec-002 check fails with critical impact and the delivery is not ready for
\* production, whatever the other files are.
C16_HardcodedKeyBlocksRelease ==
    (Audited /\ HasApiKeyLine) =>
        /\ CheckOf(delivery.auditReport.checks, "sec-002").status = "fail"
        /\ CheckOf(delivery.auditReport.checks, "sec-002").impact = "critical"
        /\ dpc = "delivered" => ~delivery.readyForProduction

C16_Witness ==
    /\ dpc = "delivered"
    /\ HasApiKeyLine
    /\ Len(projectFiles) > 1
    /\ delivery.auditReport.score >= 60
    /\ ~delivery.readyForProduction

FixedIds == [i \in 1..Len(AbsenceStatuses) |-> AbsenceStatuses[i][1]]
\* the fixed ids with perf-003 after perf-002
IdsWithBundleSize == SubSeq(FixedIds, 1, 5) \o <<"perf-003">> \o SubSeq(FixedIds, 6, Len(FixedIds))

ImpactOf(id) ==
    CASE id \in {"sec-001", "sec-002"} -> "critical"
      [] id = "sec-003" -> "high"
      [] id \in {"a11y-002", "bp-003", "cq-001"} -> "low"
      [] OTHER -> "medium"

\* the content of the file package.json, if the project has one
PackageContents == {projectFiles[i].content : i \in {j \in 1..Len(projectFiles) :
                                                        projectFiles[j].path = <<"p", "a", "c", "k", "a", "g", "e", ".", "j", "s", "o", "n">>}}
\* texts that JSON.parse rejects or turns into null
BrokenPackages == {<<"{">>, <<"n", "u", "l", "l">>}
\* a text that JSON.parse turns into a number
NumberPackage == <<"5">>

\* C17 as stated: the audit returns the same list of check ids for every file set.
C17_SameChecksForEveryProject ==
    Audited => Ids(delivery.auditReport.checks) = FixedIds

\* C17: the audit returns twelve checks with hardcoded ids in a fixed order for
\* every file set, each id once and with its fixed impact; perf-003 is added after
\* perf-002 exactly when package.json exists and its content parses to a value
\* other than null.
C17_ChecksFixedButBundleSize ==
    Audited =>
        LET cks == delivery.auditReport.checks
        IN  /\ Ids(cks) = IF PackageContents # {} /\ PackageContents \cap BrokenPackages = {}
                          THEN IdsWithBundleSize ELSE FixedIds
            /\ \A i, j \in 1..Len(cks) : cks[i].id = cks[j].id => i = j
            /\ \A i \in 1..Len(cks) : cks[i].impact = ImpactOf(cks[i].id)

C17_Witness ==
    /\ Audited
    /\ Len(projectFiles) >= 2
    /\ Len(delivery.auditReport.checks) = Len(FixedIds) + 1
    /\ CheckOf(delivery.auditReport.checks, "perf-003").status = "pass"

\* the project with package.json stored under a name that no check looks for
Renamed(files) ==
    [i \in 1..Len(files) |->
        IF files[i].path = <<"p", "a", "c", "k", "a", "g", "e", ".", "j", "s", "o", "n">>
        THEN [path |-> <<"p", "a", "c", "k", "a", "g", "e", ".", "t", "x", "t">>, content |-> files[i].content]
        ELSE files[i]]

\* C13 as stated: when package.json is not valid JSON or does not parse to an
\* object, perf-003 and the dependency list are omitted.
C13_NonObjectPackageIsSkipped ==
    (Audited /\ PackageContents \cap (BrokenPackages \cup {NumberPackage}) # {}) =>
        /\ \A i \in 1..Len(delivery.auditReport.checks) :
               delivery.auditReport.checks[i].id # "perf-003"
        /\ delivery.analysis.dependencies = <<>>

\* C13: the audit and the analysis run to their end for every file list; when
\* package.json is not valid JSON or parses to null, perf-003 and the dependency
\* list are omitted, and every other check, the project type and the score are
\* those of the same files with no package.json to read dependencies from.
C13_BrokenPackageIsSkipped ==
    (Audited /\ PackageContents \cap BrokenPackages # {}) =>
        LET other == Renamed(projectFiles)
        IN  /\ \A i \in 1..Len(delivery.auditReport.checks) :
                   delivery.auditReport.checks[i].id # "perf-003"
            /\ delivery.analysis.dependencies = <<>>
            /\ delivery.auditReport.checks = auditProject(other).checks
            /\ delivery.auditReport.score = auditProject(other).score
            /\ delivery.analysis.projectType = analyzeProject(other).projectType
            /\ delivery.analysis.fileCount = Len(projectFiles)

C13_Witness ==
    /\ Audited
    /\ PackageContents = {<<"n", "u", "l", "l">>}
    /\ Len(projectFiles) >= 2
    /\ delivery.analysis.projectType # "static"
    /\ Len(delivery.auditReport.checks) = Len(FixedIds)

PlatformsOf(projectType) ==
    CASE projectType = "nextjs" -> <<"vercel", "netlify", "cloudflare-pages">>
      [] projectType = "react"  -> <<"vercel", "github-pages", "cloudflare-pages">>
      [] OTHER                  -> <<"cloudflare-pages">>

Guided == dpc \in {"guided", "planned", "delivered"}

\* C18 as stated: Next.js projects get Vercel, Netlify and Cloudflare Pages,
\* React projects get exactly Vercel and GitHub Pages.
C18_ReactGetsTwoPlatforms ==
    Guided =>
        /\ delivery.analysis.projectType = "nextjs" =>
               delivery.deploymentGuide.recommendedPlatforms
                   = <<"vercel", "netlify", "cloudflare-pages">>
        /\ delivery.analysis.projectType = "react" =>
               delivery.deploymentGuide.recommendedPlatforms = <<"vercel", "github-pages">>

\* C18: the recommended platforms depend on the project type only: Vercel,
\* Netlify, Cloudflare Pages for 'nextjs'; Vercel, GitHub Pages, Cloudflare Pages
\* for 'react'; Cloudflare Pages alone for any other type.
C18_PlatformsByProjectType ==
    Guided =>
        delivery.deploymentGuide.recommendedPlatforms = PlatformsOf(delivery.analysis.projectType)

C18_Witness ==
    /\ Guided
    /\ delivery.analysis.projectType = "react"
    /\ delivery.analysis.dependencies # <<>>
    /\ delivery.analysis.complexity = "medium"
    /\ delivery.analysis.hasTests

Planned == dpc \in {"planned", "delivered"}
ItemIds(items) == [i \in 1..Len(items) |-> items[i].id]

\* C19: each of the three lists of next steps has at most 5 items; immediate
\* starts with one critical 'Fix: <name>' item per check that fails with critical
\* impact, the remaining items follow in their literal order, and 'Deploy to
\* Production' is listed only when no check fails with critical impact.
C19_NextStepsShape ==
    Planned =>
        LET cks  == delivery.auditReport.checks
            crit == CriticalChecks(cks)
            imm  == delivery.nextSteps.immediate
            n    == Len(crit)
        IN  /\ Len(imm) <= 5
            /\ Len(delivery.nextSteps.shortTerm) <= 5
            /\ Len(delivery.nextSteps.longTerm) <= 5
            /\ n <= Len(imm)
            /\ \A i \in 1..n :
                   /\ imm[i].title = <<"Fix: ", crit[i].name>>
                   /\ imm[i].priority = "critical"
            /\ ItemIds(SubSeq(imm, n + 1, Len(imm)))
                   \in { <<>>, << <<"immediate-env">> >>,
                         << <<"immediate-deploy">>, <<"immediate-git">> >>,
                         << <<"immediate-deploy">>, <<"immediate-git">>, <<"immediate-env">> >> }
            /\ (\E i \in 1..Len(imm) : imm[i].title = <<"Deploy to Production">>)
                   => ~CriticalFailure(cks)
            /\ ~CriticalFailure(cks) => n = 0

C19_Witness ==
    /\ Planned
    /\ CriticalFailure(delivery.auditReport.checks)
    /\ ItemIds(delivery.nextSteps.immediate)
           = << <<"immediate-", "sec-002">>, <<"immediate-env">> >>
    /\ Len(delivery.nextSteps.shortTerm) = 5
    /\ Len(delivery.auditReport.improvements) = 3

\* the quickActionIds the items of the three lists carry
QuickIdsOf(items) ==
    {items[i].quickActionId : i \in {j \in 1..Len(items) : "quickActionId" \in DOMAIN items[j]}}
OfferedQuickIds ==
    QuickIdsOf(delivery.nextSteps.immediate) \cup QuickIdsOf(delivery.nextSteps.shortTerm)
        \cup QuickIdsOf(delivery.nextSteps.longTerm)
EnabledQuickIds ==
    {delivery.deploymentGuide.quickActions[i].id :
        i \in {j \in 1..Len(delivery.deploymentGuide.quickActions) :
                  delivery.deploymentGuide.quickActions[j].enabled}}

\* C29: every quickActionId of a next step is the id of an enabled quick
\* action of the deployment guide and has a handler in the dashboard; the CI
\* step (qa-003) is offered exactly when qa-003 is enabled, and the environment
\* step (qa-005) only when a required environment variable exists.
C29_QuickActionsAreEnabled ==
    Planned =>
        /\ OfferedQuickIds \subseteq EnabledQuickIds
        /\ OfferedQuickIds \subseteq QuickActionHandlers
        /\ "qa-003" \in OfferedQuickIds <=> "qa-003" \in EnabledQuickIds
        /\ "qa-003" \in EnabledQuickIds <=> ~delivery.analysis.hasCI
        /\ "qa-005" \in OfferedQuickIds
               => Len(delivery.deploymentGuide.environmentSetup.required) > 0

\* a project with a CI workflow and a required variable: no CI step, qa-003
\* disabled, the environment step offered
C29_Witness ==
    /\ dpc = "delivered"
    /\ delivery.analysis.hasCI
    /\ "qa-003" \notin EnabledQuickIds
    /\ OfferedQuickIds = {"qa-001", "qa-002", "qa-004", "qa-005"}
    /\ Len(delivery.deploymentGuide.environmentSetup.required) > 0

----------------------------------------------------------------------------
(* Properties of the dashboard *)

Settled == \A i \in 1..Len(loads) : loads[i].pc \in {"shown", "failed"}

\* C11: a rejected step makes deliverProject reject with no report, partial or
\* whole, and once the failure of the latest analysis is handled the dashboard
\* shows 'Analysis Failed': loading is false and no delivery is displayed, neither
\* a partial one nor that of an earlier run.
C11_FailureShowsAnalysisFailed ==
    /\ \A i \in 1..Len(loads) : loads[i].pc \in {"rejected", "failed"} => loads[i].data = Idle
    /\ (dash.kind = "mounted" /\ loads # <<>> /\ Settled /\ loads[Len(loads)].pc = "failed") =>
           /\ ~dash.loading
           /\ dash.delivery = Null
           /\ Screen = "Analysis Failed"

\* C28: whenever the dashboard is not loading, the most recently started
\* analysis (the one for the current projectId) has settled and what is on
\* screen is its outcome: its report when it resolved, no report when it
\* failed; an earlier call never overwrites it or ends its loading state.
C28_ShowsLatestAnalysis ==
    (dash.kind = "mounted" /\ ~dash.loading) =>
        LET latest == loads[Len(loads)]
        IN  /\ latest.projectId = dash.projectId
            /\ latest.pc \in {"shown", "failed"}
            /\ latest.pc = "shown" => dash.delivery = Some(latest.data)
            /\ latest.pc = "failed" => dash.delivery = Null

\* some file's content matches one of the three secret patterns
HasSecret ==
    \E i \in 1..Len(projectFiles) : \E k \in 1..Len(secretPatterns) :
        Test(secretPatterns[k], projectFiles[i].content)

\* C23: for every file set the audit report scores at least 64, has no errors
\* and can fail no check but sec-002; so the delivery is ready for production
\* exactly when no file's content matches a secret pattern, and the score
\* threshold of 60 never decides.
C23_OnlySecretsBlockRelease ==
    /\ Audited =>
          /\ delivery.auditReport.score >= 64
          /\ delivery.auditReport.errors = <<>>
          /\ \A i \in 1..Len(delivery.auditReport.checks) :
                 delivery.auditReport.checks[i].status = "fail"
                     => delivery.auditReport.checks[i].id = "sec-002"
          /\ CheckOf(delivery.auditReport.checks, "sec-002").status = "fail" <=> HasSecret
    /\ dpc = "delivered" => (delivery.readyForProduction <=> ~HasSecret)

\* the worst report: sec-002 fails and every other check warns
C23_Witness ==
    /\ dpc = "delivered"
    /\ delivery.auditReport.score = 64
    /\ HasSecret
    /\ ~delivery.readyForProduction
    /\ \A i \in 1..Len(delivery.auditReport.checks) :
           delivery.auditReport.checks[i].status =
               IF delivery.auditReport.checks[i].id = "sec-002" THEN "fail" ELSE "warn"

\* C24: after a renameFile(p, old, new) that ran alone returns without error,
\* getFile(p, new) returns the content old held before the call, for all old
\* and new, old = new and an occupied new path included.
C24_RenameKeepsContent ==
    (task.kind = "rename" /\ task.pc = "done" /\ task.clean) =>
        getFile(store, task.projectId, task.newPath)
            = getFile(task.snap, task.projectId, task.oldPath)

\* the reports the deliverProject calls have returned
Delivered == {i \in 1..Len(loads) : loads[i].pc \in {"delivered", "shown"}}

\* C27: every delivery describes one snapshot of the project: summary.fileCount
\* = analysis.fileCount = projectFiles.length, and the audit is the audit of
\* exactly the files in projectFiles, also when writes and deletes of the same
\* project land between the awaits of deliverProject.
C27_DeliveryIsOneSnapshot ==
    \A i \in Delivered :
        LET d == loads[i].data
        IN  /\ d.summary.fileCount = d.analysis.fileCount
            /\ d.analysis.fileCount = Len(d.projectFiles)
            /\ d.analysis = analyzeProject(d.projectFiles)
            /\ d.auditReport = auditProject(d.projectFiles)

----------------------------------------------------------------------------
(* Properties of detectWarnings *)

\* one warning per (file, pattern) pair whose content contains the pattern, in
\* the order of the loops
RECURSIVE WarningsFrom(_, _, _)
WarningsFrom(files, i, k) ==
    IF i > Len(files) THEN <<>>
    ELSE (IF Includes(files[i].content, deprecatedPatterns[k])
          THEN <<Warning(k, files[i].path)>> ELSE <<>>)
         \o (IF k = Len(deprecatedPatterns) THEN WarningsFrom(files, i + 1, 1)
             ELSE WarningsFrom(files, i, k + 1))

\* C26: detectWarnings returns exactly one 'deprecated' warning, naming the
\* file, for every (file, pattern) pair whose content contains the pattern and
\* none otherwise, whatever the number, the order and the contents of the files.
C26_OneWarningPerMatch ==
    (scan.kind = "scan" /\ scan.pc = "returned") =>
        scan.warnings = WarningsFrom(scan.files, 1, 1)

----------------------------------------------------------------------------
(* Properties of preflight.sh *)

\* the checks whose failure is to fail the run
HardChecks ==
    {"node", "typescript", "frontend install", "backend install", "lint",
     "frontend tsc", "backend tsc", "build", "gitignore", "no committed env"}

\* C30: preflight.sh exits 0 exactly when every hard check succeeds and
\* non-zero when one fails; optional items that are missing only warn and do
\* not change the exit status.
C30_ExitStatusFollowsHardChecks ==
    (flight.kind = "preflight" /\ flight.pc = "exited") =>
        (flight.status = Some(0) <=> flight.bad \cap HardChecks = {})

----------------------------------------------------------------------------
(* Properties of the theme *)

\* the class opposite to a stored theme
Opposite(t) == IF t = "dark" THEN "light" ELSE "dark"

\* C22: while the page mounts with 'dark' (resp. 'light') stored, from the
\* inline script onward through the effects of useTheme, the root never carries
\* the opposite class, whatever the OS preference.
C22_StoredThemeNeverFlashes ==
    (page.kind = "page" /\ page.pc # "head" /\ ~page.mounted
        /\ page.stored \in {Some("dark"), Some("light")})
    => Opposite(page.stored[1]) \notin page.classList

================================================================================
